---- MODULE Spec2Model ----
(***************************************************************************)
(* A model of the evaluation scaffolding of starlark-rust:                 *)
(*   - collections/small_map.rs : SmallMap, the order-preserving map       *)
(*   - eval/parameters.rs       : ParametersSpec and ParametersCollect     *)
(* with three specifications over it:                                      *)
(*   - SpecParams : a ParametersSpec is built and a collector binds calls  *)
(*   - SpecMap    : one SmallMap under insert, remove, reserve and clear   *)
(*   - SpecMapEq  : two SmallMaps compared by eq and hash                  *)
(*                                                                         *)
(* Pure functions of the source are operators that return the new value    *)
(* of the receiver (and, where the source returns something, a record of   *)
(* the receiver `m` and the returned value `ret`).  Option<T> is the       *)
(* empty sequence (None) or a one-element sequence (Some(x)).              *)
(***************************************************************************)
EXTENDS Integers, Sequences, FiniteSets, TLC

None == <<>>
Some(x) == <<x>>

(***************************************************************************)
(* Bounds of the model.                                                    *)
(***************************************************************************)
\* regular (required / optional / defaulted) parameters a spec may declare
MaxParams == 2
\* argument values one call sequence may deliver
MaxArgs == 3
\* keys a map may hold beyond the promotion threshold
ExtraKeys == 1
\* operations applied to a map after its construction
MaxOps == 2
\* keys and values of the two maps that are compared
MaxEqKeys == 2
MaxEqVals == 2
\* entries of the mutable heap
MaxCells == 2
\* elements of a list
MaxLen == 2
\* shared borrows of one cell
MaxBorrows == 1
\* entries of the frozen heap
MaxFrozen == 4

(***************************************************************************)
(* SmallMap: collections/small_map.rs.                                     *)
(* A map is [shape, entries]: shape is the MapHolder variant and entries   *)
(* the stored (key, value) pairs in storage order.  Every key carries a    *)
(* hash that is a function of the key, so a lookup by (hash, key) is a     *)
(* lookup by key.                                                          *)
(***************************************************************************)
\* vec_map::THRESHOLD
THRESHOLD == 12

\* 1-based position of key k in entries es, 0 when absent
RECURSIVE PosFrom(_, _, _)
PosFrom(es, k, i) ==
    IF i > Len(es) THEN 0
    ELSE IF es[i][1] = k THEN i
    ELSE PosFrom(es, k, i + 1)

Pos(es, k) == PosFrom(es, k, 1)

RemoveAt(es, i) == SubSeq(es, 1, i - 1) \o SubSeq(es, i + 1, Len(es))

Reverse(s) == [i \in 1..Len(s) |-> s[Len(s) + 1 - i]]

\* VecMap::insert_hashed: replace the value in place, or push at the end
VecMap_insert_hashed(es, k, v) ==
    LET i == Pos(es, k) IN
    IF i = 0 THEN [entries |-> Append(es, <<k, v>>), ret |-> None]
    ELSE [entries |-> [es EXCEPT ![i] = <<k, v>>], ret |-> Some(es[i][2])]

\* VecMap::remove_hashed: remove and shift the later entries down
VecMap_remove_hashed(es, k) ==
    LET i == Pos(es, k) IN
    IF i = 0 THEN [entries |-> es, ret |-> None]
    ELSE [entries |-> RemoveAt(es, i), ret |-> Some(es[i][2])]

\* VecMap::get_index
VecMap_get_index(es, index) ==
    IF index < Len(es) THEN Some(es[index + 1]) ELSE None

\* indexmap::IndexMap::insert: replace in place, or append
IndexMap_insert(es, k, v) ==
    LET i == Pos(es, k) IN
    IF i = 0 THEN [entries |-> Append(es, <<k, v>>), ret |-> None]
    ELSE [entries |-> [es EXCEPT ![i] = <<k, v>>], ret |-> Some(es[i][2])]

\* indexmap::IndexMap::shift_remove
IndexMap_shift_remove(es, k) ==
    LET i == Pos(es, k) IN
    IF i = 0 THEN [entries |-> es, ret |-> None]
    ELSE [entries |-> RemoveAt(es, i), ret |-> Some(es[i][2])]

\* indexmap::IndexMap::get_index
IndexMap_get_index(es, index) ==
    IF index < Len(es) THEN Some(es[index + 1]) ELSE None

\* VecMap::drain_to: move every entry, first to last, into the index map
RECURSIVE VecMap_drain_to(_, _)
VecMap_drain_to(es, mes) ==
    IF es = <<>> THEN mes
    ELSE VecMap_drain_to(Tail(es), IndexMap_insert(mes, es[1][1], es[1][2]).entries)

MapHolder_with_capacity(n) ==
    IF n < THRESHOLD THEN [shape |-> "Vec", entries |-> <<>>]
    ELSE [shape |-> "Map", entries |-> <<>>]

MapHolder_default == [shape |-> "Empty", entries |-> <<>>]

SmallMap_new == MapHolder_default

SmallMap_with_capacity(n) == MapHolder_with_capacity(n)

keys(m) == [i \in 1..Len(m.entries) |-> m.entries[i][1]]

values(m) == [i \in 1..Len(m.entries) |-> m.entries[i][2]]

iter(m) == m.entries

\* the hash of an entry's key is a function of the key: the pair stands
\* for (BorrowHashed<K>, &V)
iter_hashed(m) == m.entries

len(m) == IF m.shape = "Empty" THEN 0 ELSE Len(m.entries)

is_empty(m) == IF m.shape = "Empty" THEN TRUE ELSE Len(m.entries) = 0

get_hashed(m, k) ==
    IF m.shape = "Empty" THEN None
    ELSE LET i == Pos(m.entries, k) IN
         IF i = 0 THEN None ELSE Some(m.entries[i][2])

get(m, k) == get_hashed(m, k)

\* mutant: the index of get_full counts from one
get_full_one_based(m, k) ==
    IF m.shape = "Empty" THEN None
    ELSE LET i == Pos(m.entries, k) IN
         IF i = 0 THEN None ELSE Some(<<i, m.entries[i][1], m.entries[i][2]>>)

get_full(m, k) ==
    IF m.shape = "Empty" THEN None
    ELSE LET i == Pos(m.entries, k) IN
         IF i = 0 THEN None ELSE Some(<<i - 1, m.entries[i][1], m.entries[i][2]>>)

\* mutant: get_index_of counts from one
get_index_of_hashed_one_based(m, k) ==
    IF m.shape = "Empty" THEN None
    ELSE LET i == Pos(m.entries, k) IN
         IF i = 0 THEN None ELSE Some(i)

get_index_of_hashed(m, k) ==
    IF m.shape = "Empty" THEN None
    ELSE LET i == Pos(m.entries, k) IN
         IF i = 0 THEN None ELSE Some(i - 1)

get_index_of(m, k) == get_index_of_hashed(m, k)

get_index(m, index) ==
    CASE m.shape = "Empty" -> None
      [] m.shape = "Vec" -> VecMap_get_index(m.entries, index)
      [] m.shape = "Map" -> IndexMap_get_index(m.entries, index)

contains_key_hashed(m, k) ==
    IF m.shape = "Empty" THEN FALSE ELSE Pos(m.entries, k) # 0

contains_key(m, k) == contains_key_hashed(m, k)

upgrade_empty_to_vec(m) == [shape |-> "Vec", entries |-> <<>>]

\* mutant: the drain refills the index map last entry first
upgrade_vec_to_map_reversed(m, capacity) ==
    [shape |-> "Map", entries |-> VecMap_drain_to(Reverse(m.entries), <<>>)]

upgrade_vec_to_map(m, capacity) ==
    [shape |-> "Map", entries |-> VecMap_drain_to(m.entries, <<>>)]

\* mutant: the vector is promoted as soon as the requested total reaches the
\* threshold, as with_capacity does
reserve_at_threshold(m, additional) ==
    IF additional = 0 THEN m
    ELSE CASE m.shape = "Empty" -> MapHolder_with_capacity(additional)
           [] m.shape = "Vec" ->
                LET want == additional + Len(m.entries) IN
                IF want >= THRESHOLD THEN upgrade_vec_to_map(m, want) ELSE m
           [] m.shape = "Map" -> m

reserve(m, additional) ==
    IF additional = 0 THEN m
    ELSE CASE m.shape = "Empty" -> MapHolder_with_capacity(additional)
           [] m.shape = "Vec" ->
                LET want == additional + Len(m.entries) IN
                IF want > THRESHOLD THEN upgrade_vec_to_map(m, want) ELSE m
           [] m.shape = "Map" -> m

\* mutant: the index map removes by swap_remove, the last entry fills the hole
remove_hashed_swap(m, k) ==
    LET i == Pos(m.entries, k) n == Len(m.entries) IN
    IF m.shape = "Empty" \/ i = 0 THEN [m |-> m, ret |-> None]
    ELSE [m |-> [shape |-> m.shape,
                 entries |-> [j \in 1..(n - 1) |->
                                IF j = i THEN m.entries[n] ELSE m.entries[j]]],
          ret |-> Some(m.entries[i][2])]

\* mutant: a removal that leaves fewer than THRESHOLD entries in the index map
\* moves them back to a vector
remove_hashed_demote(m, k) ==
    LET i == Pos(m.entries, k) IN
    IF m.shape = "Empty" \/ i = 0 THEN [m |-> m, ret |-> None]
    ELSE [m |-> [shape |-> IF Len(m.entries) - 1 < THRESHOLD THEN "Vec" ELSE m.shape,
                 entries |-> RemoveAt(m.entries, i)],
          ret |-> Some(m.entries[i][2])]

\* mutant: a replaced key moves to the end (swap-remove then push)
insert_hashed_reorder(m, k, v) ==
    LET i == Pos(m.entries, k)
        shape == IF m.shape = "Empty" \/ (m.shape = "Vec" /\ Len(m.entries) + 1 < THRESHOLD)
                 THEN "Vec" ELSE "Map" IN
    IF i = 0
    THEN [m |-> [shape |-> shape, entries |-> Append(m.entries, <<k, v>>)], ret |-> None]
    ELSE [m |-> [shape |-> shape, entries |-> Append(RemoveAt(m.entries, i), <<k, v>>)],
          ret |-> Some(m.entries[i][2])]

\* mutant: replacing an existing key never promotes, only a new key counts
insert_hashed_new_key_only(m, k, v) ==
    CASE m.shape = "Empty" ->
            LET r == VecMap_insert_hashed(upgrade_empty_to_vec(m).entries, k, v) IN
            [m |-> [shape |-> "Vec", entries |-> r.entries], ret |-> r.ret]
      [] m.shape = "Map" ->
            LET r == IndexMap_insert(m.entries, k, v) IN
            [m |-> [shape |-> "Map", entries |-> r.entries], ret |-> r.ret]
      [] m.shape = "Vec" ->
            LET want == Len(m.entries) + (IF Pos(m.entries, k) = 0 THEN 1 ELSE 0) IN
            IF want < THRESHOLD
            THEN LET r == VecMap_insert_hashed(m.entries, k, v) IN
                 [m |-> [shape |-> "Vec", entries |-> r.entries], ret |-> r.ret]
            ELSE LET r == IndexMap_insert(upgrade_vec_to_map(m, want).entries, k, v) IN
                 [m |-> [shape |-> "Map", entries |-> r.entries], ret |-> r.ret]

insert_hashed(m, k, v) ==
    CASE m.shape = "Empty" ->
            LET r == VecMap_insert_hashed(upgrade_empty_to_vec(m).entries, k, v) IN
            [m |-> [shape |-> "Vec", entries |-> r.entries], ret |-> r.ret]
      [] m.shape = "Map" ->
            LET r == IndexMap_insert(m.entries, k, v) IN
            [m |-> [shape |-> "Map", entries |-> r.entries], ret |-> r.ret]
      [] m.shape = "Vec" ->
            LET want == Len(m.entries) + 1 IN
            IF want < THRESHOLD
            THEN LET r == VecMap_insert_hashed(m.entries, k, v) IN
                 [m |-> [shape |-> "Vec", entries |-> r.entries], ret |-> r.ret]
            ELSE LET r == IndexMap_insert(upgrade_vec_to_map(m, want).entries, k, v) IN
                 [m |-> [shape |-> "Map", entries |-> r.entries], ret |-> r.ret]

insert(m, k, v) == insert_hashed(m, k, v)

remove_hashed(m, k) ==
    CASE m.shape = "Empty" -> [m |-> m, ret |-> None]
      [] m.shape = "Vec" ->
            LET r == VecMap_remove_hashed(m.entries, k) IN
            [m |-> [shape |-> "Vec", entries |-> r.entries], ret |-> r.ret]
      [] m.shape = "Map" ->
            LET r == IndexMap_shift_remove(m.entries, k) IN
            [m |-> [shape |-> "Map", entries |-> r.entries], ret |-> r.ret]

\* mutant: remove goes through a swap-remove
remove_swap(m, k) == remove_hashed_swap(m, k)

remove(m, k) == remove_hashed(m, k)

clear(m) == MapHolder_default

\* FromIterator: with_capacity(size_hint) and one insert per item
RECURSIVE InsertAll(_, _)
InsertAll(m, es) ==
    IF es = <<>> THEN m
    ELSE InsertAll(insert(m, es[1][1], es[1][2]).m, Tail(es))

from_iter(es) == InsertAll(SmallMap_with_capacity(Len(es)), es)

\* PartialEq::eq
eq(a, b) ==
    IF a.shape = "Empty" /\ b.shape = "Empty" THEN TRUE
    ELSE /\ len(a) = len(b)
         /\ \A i \in 1..Len(iter_hashed(a)) :
               get_hashed(b, iter_hashed(a)[i][1]) = Some(iter_hashed(a)[i][2])

\* a u64 is four 16-bit limbs, least significant first
Limb == 65536

Zero64 == <<0, 0, 0, 0>>

\* std::num::Wrapping<u64> addition: the carry out of the top limb is dropped
WrappingAdd(x, y) ==
    LET s1 == x[1] + y[1]
        s2 == x[2] + y[2] + (s1 \div Limb)
        s3 == x[3] + y[3] + (s2 \div Limb)
        s4 == x[4] + y[4] + (s3 \div Limb) IN
    <<s1 % Limb, s2 % Limb, s3 % Limb, s4 % Limb>>

\* DefaultHasher over the entry (k, v): some fixed function of the entry
\* into u64, here one that spreads over all limbs and is large in the top one
EntryHash(e) ==
    <<(e[1] * 40503 + e[2] * 7919) % Limb,
      (e[1] * 30011 + e[2] * 12347 + 65000) % Limb,
      (e[1] * 977 + e[2] * 65521) % Limb,
      (Limb - 1 - 5 * e[1] - e[2]) % Limb>>

\* mutant: the entry hashes are chained, not summed
RECURSIVE HashChain(_, _)
HashChain(es, acc) ==
    IF es = <<>> THEN acc
    ELSE HashChain(Tail(es), WrappingAdd(WrappingAdd(acc, acc), EntryHash(es[1])))

hash_chained(m) == HashChain(iter(m), Zero64)

\* Iterator::sum over Wrapping<u64>, in iteration order
RECURSIVE WrappingSum(_, _)
WrappingSum(es, acc) ==
    IF es = <<>> THEN acc
    ELSE WrappingSum(Tail(es), WrappingAdd(acc, EntryHash(es[1])))

\* Hash::hash: the u64 written to the hasher state
hash(m) == WrappingSum(iter(m), Zero64)

(***************************************************************************)
(* Values.  Every value is a record of the same five fields, so that any   *)
(* two values can be compared: an int uses n, a string s, a tuple items    *)
(* (its elements), a dict items (its entries, in order) and shape (its     *)
(* SmallMap's storage shape).                                              *)
(***************************************************************************)
VInt(n) == [tag |-> "int", n |-> n, s |-> "", items |-> <<>>, shape |-> ""]

VStr(s) == [tag |-> "str", n |-> 0, s |-> s, items |-> <<>>, shape |-> ""]

\* Tuple::new(args)
VTuple(xs) == [tag |-> "tuple", n |-> 0, s |-> "", items |-> xs, shape |-> ""]

\* Dict::new(map)
VDict(m) == [tag |-> "dict", n |-> 0, s |-> "", items |-> m.entries, shape |-> m.shape]

\* ValueRef::new_unassigned
Unassigned == [tag |-> "unassigned", n |-> 0, s |-> "", items |-> <<>>, shape |-> ""]

is_unassigned(slot) == slot.tag = "unassigned"

\* Value::unpack_str
unpack_str(v) == IF v.tag = "str" THEN Some(v.s) ELSE None

\* Dict::from_value
Dict_from_value(v) ==
    IF v.tag = "dict" THEN Some([shape |-> v.shape, entries |-> v.items]) ELSE None

\* Value::iterate: Ok(the elements), or Err for a value that is not iterable
iterate(v) ==
    CASE v.tag = "tuple" -> Some(v.items)
      [] v.tag = "dict" -> Some([i \in 1..Len(v.items) |-> v.items[i][1]])
      [] OTHER -> None

(***************************************************************************)
(* FunctionError: eval/parameters.rs.  One record shape for every kind.    *)
(***************************************************************************)
FunctionError(kind, name, count, names) ==
    [kind |-> kind, name |-> name, count |-> count, names |-> names]

MissingParameter(name) == FunctionError("MissingParameter", name, 0, <<>>)

ExtraPositionalParameters(count) == FunctionError("ExtraPositionalParameters", "", count, <<>>)

ExtraNamedParameters(names) == FunctionError("ExtraNamedParameters", "", 0, names)

RepeatedParameter(name) == FunctionError("RepeatedParameter", name, 0, <<>>)

ArgsValueIsNotString == FunctionError("ArgsValueIsNotString", "", 0, <<>>)

ArgsArrayIsNotIterable == FunctionError("ArgsArrayIsNotIterable", "", 0, <<>>)

KWArgsIsNotDict == FunctionError("KWArgsIsNotDict", "", 0, <<>>)

(***************************************************************************)
(* ParametersSpec: eval/parameters.rs.                                     *)
(* names holds (name, ParameterDefault) with the default's value in def;   *)
(* indices maps a name to its 0-based position.                            *)
(***************************************************************************)
ParametersSpec_new ==
    [names |-> <<>>, indices |-> SmallMap_new, positional |-> 0,
     no_args |-> FALSE, args |-> None, kwargs |-> None]

\* mutant: a parameter added after the marker still counts as positional
add_always_positional(p, name, kind, def) ==
    LET i == Len(p.names) IN
    [p EXCEPT !.names = Append(@, [name |-> name, kind |-> kind, def |-> def]),
              !.indices = insert(@, name, i).m,
              !.positional = i + 1]

add(p, name, kind, def) ==
    LET i == Len(p.names) IN
    [p EXCEPT !.names = Append(@, [name |-> name, kind |-> kind, def |-> def]),
              !.indices = insert(@, name, i).m,
              !.positional = IF p.args = None /\ ~p.no_args THEN i + 1 ELSE @]

\* the assertion of add: the name was not in the index
add_assert(p, name) == insert(p.indices, name, Len(p.names)).ret = None

required(p, name) == add(p, name, "Required", Unassigned)

optional(p, name) == add(p, name, "Optional", Unassigned)

defaulted(p, name, val) == add(p, name, "Defaulted", val)

ParametersSpec_args(p, name) ==
    [p EXCEPT !.names = Append(@, [name |-> name, kind |-> "Args", def |-> Unassigned]),
              !.args = Some(Len(p.names))]

ParametersSpec_no_args(p) == [p EXCEPT !.no_args = TRUE]

ParametersSpec_kwargs(p, name) ==
    [p EXCEPT !.names = Append(@, [name |-> name, kind |-> "KWargs", def |-> Unassigned]),
              !.kwargs = Some(Len(p.names))]

Max(a, b) == IF a > b THEN a ELSE b

\* ParametersSpec::collect.  A history field follows the struct's own:
\* first, the first error any call handed to set_err.
collect(p, slots) ==
    [slots |-> [i \in 1..Max(slots, Len(p.names)) |-> Unassigned],
     only_positional |-> TRUE,
     next_position |-> 0,
     args |-> <<>>,
     kwargs |-> SmallMap_new,
     err |-> None,
     first |-> None]

(***************************************************************************)
(* ParametersCollect: eval/parameters.rs.                                  *)
(***************************************************************************)
\* mutant: the last error replaces the recorded one
set_err_last(c, err) ==
    [c EXCEPT !.err = Some(err),
              !.first = IF c.first = None THEN Some(err) ELSE @]

set_err(c, err) ==
    [c EXCEPT !.err = IF c.err = None THEN Some(err) ELSE @,
              !.first = IF c.first = None THEN Some(err) ELSE @]

\* mutant: next_position is not advanced
positional_no_advance(p, c, val) ==
    IF c.next_position < p.positional
    THEN IF c.only_positional \/ is_unassigned(c.slots[c.next_position + 1])
         THEN [c EXCEPT !.slots[c.next_position + 1] = val]
         ELSE set_err(c, RepeatedParameter(p.names[c.next_position + 1].name))
    ELSE [c EXCEPT !.args = Append(@, val)]

\* mutant: the already-bound check is skipped
positional_unchecked(p, c, val) ==
    IF c.next_position < p.positional
    THEN [c EXCEPT !.slots[c.next_position + 1] = val,
                   !.next_position = @ + 1]
    ELSE [c EXCEPT !.args = Append(@, val)]

positional(p, c, val) ==
    IF c.next_position < p.positional
    THEN IF c.only_positional \/ is_unassigned(c.slots[c.next_position + 1])
         THEN [c EXCEPT !.slots[c.next_position + 1] = val,
                        !.next_position = @ + 1]
         ELSE set_err(c, RepeatedParameter(p.names[c.next_position + 1].name))
    ELSE [c EXCEPT !.args = Append(@, val)]

\* mutant: only_positional is left as it was
named_keep_only_positional(p, c, name, name_value, val) ==
    LET found == get_hashed(p.indices, name)
        old == insert_hashed(c.kwargs, name_value, val)
        c2 == IF found = None
              THEN [c EXCEPT !.kwargs = old.m]
              ELSE [c EXCEPT !.slots[found[1] + 1] = val]
        repeated == IF found = None
                    THEN old.ret # None
                    ELSE ~is_unassigned(c.slots[found[1] + 1])
    IN IF repeated THEN set_err(c2, RepeatedParameter(name)) ELSE c2

\* mutant: the index is not consulted, every pair goes to the overflow
named_overflow_only(p, c, name, name_value, val) ==
    LET c1 == [c EXCEPT !.only_positional = FALSE]
        old == insert_hashed(c1.kwargs, name_value, val)
    IN IF old.ret # None THEN set_err([c1 EXCEPT !.kwargs = old.m], RepeatedParameter(name))
       ELSE [c1 EXCEPT !.kwargs = old.m]

named(p, c, name, name_value, val) ==
    LET c1 == [c EXCEPT !.only_positional = FALSE]
        found == get_hashed(p.indices, name)
        old == insert_hashed(c1.kwargs, name_value, val)
        c2 == IF found = None
              THEN [c1 EXCEPT !.kwargs = old.m]
              ELSE [c1 EXCEPT !.slots[found[1] + 1] = val]
        repeated == IF found = None
                    THEN old.ret # None
                    ELSE ~is_unassigned(c1.slots[found[1] + 1])
    IN IF repeated THEN set_err(c2, RepeatedParameter(name)) ELSE c2

RECURSIVE positional_each(_, _, _)
positional_each(p, c, xs) ==
    IF xs = <<>> THEN c
    ELSE positional_each(p, positional(p, c, xs[1]), Tail(xs))

\* mutant: the elements of the splat are delivered last to first
args_reversed(p, c, val) ==
    LET it == iterate(val) IN
    IF it = None THEN set_err(c, ArgsArrayIsNotIterable)
    ELSE positional_each(p, c, [i \in 1..Len(it[1]) |-> it[1][Len(it[1]) + 1 - i]])

args(p, c, val) ==
    LET it == iterate(val) IN
    IF it = None THEN set_err(c, ArgsArrayIsNotIterable)
    ELSE positional_each(p, c, it[1])

\* the loop of kwargs over y.iter_hashed(): the first key that is not a
\* string ends it with ArgsValueIsNotString
RECURSIVE named_each(_, _, _)
named_each(p, c, es) ==
    IF es = <<>> THEN c
    ELSE LET str == unpack_str(es[1][1]) IN
         IF str = None THEN set_err(c, ArgsValueIsNotString)
         ELSE named_each(p, named(p, c, str[1], es[1][1], es[1][2]), Tail(es))

kwargs(p, c, val) ==
    LET y == Dict_from_value(val) IN
    IF y = None THEN set_err(c, KWArgsIsNotDict)
    ELSE LET c1 == IF p.kwargs # None
                   THEN [c EXCEPT !.kwargs = reserve(@, len(y[1]))]
                   ELSE c
         IN named_each(p, c1, iter_hashed(y[1]))

Ok(slots) == [ok |-> TRUE, slots |-> slots, err |-> None]

Err(e) == [ok |-> FALSE, slots |-> <<>>, err |-> Some(e)]

str_names(ks) == [i \in 1..Len(ks) |-> ks[i].s]

\* mutant: surplus positional arguments are reported before surplus named ones
done_extra_positional_first(slots, a, kw) ==
    IF a # <<>> THEN Err(ExtraPositionalParameters(Len(a)))
    ELSE IF ~is_empty(kw) THEN Err(ExtraNamedParameters(str_names(keys(kw))))
    ELSE Ok(slots)

\* the end of done, after the loop over the slots
done_extra(slots, a, kw) ==
    IF ~is_empty(kw) THEN Err(ExtraNamedParameters(str_names(keys(kw))))
    ELSE IF a # <<>> THEN Err(ExtraPositionalParameters(Len(a)))
    ELSE Ok(slots)

\* mutant: the loop does not skip the slots that are already assigned
RECURSIVE done_fill_overwrite(_, _, _, _, _)
done_fill_overwrite(p, slots, a, kw, i) ==
    IF i > Len(p.names) THEN done_extra(slots, a, kw)
    ELSE LET def == p.names[i] IN
         CASE def.kind = "Required" ->
                IF is_unassigned(slots[i]) THEN Err(MissingParameter(def.name))
                ELSE done_fill_overwrite(p, slots, a, kw, i + 1)
           [] def.kind = "Optional" -> done_fill_overwrite(p, slots, a, kw, i + 1)
           [] def.kind = "Defaulted" ->
                done_fill_overwrite(p, [slots EXCEPT ![i] = def.def], a, kw, i + 1)
           [] def.kind = "Args" ->
                done_fill_overwrite(p, [slots EXCEPT ![i] = VTuple(a)], <<>>, kw, i + 1)
           [] def.kind = "KWargs" ->
                done_fill_overwrite(p, [slots EXCEPT ![i] = VDict(kw)], a, MapHolder_default, i + 1)

\* the loop of done over params.names zipped with slots, from index i on
RECURSIVE done_fill(_, _, _, _, _)
done_fill(p, slots, a, kw, i) ==
    IF i > Len(p.names) THEN done_extra(slots, a, kw)
    ELSE IF ~is_unassigned(slots[i]) THEN done_fill(p, slots, a, kw, i + 1)
    ELSE LET def == p.names[i] IN
         CASE def.kind = "Required" -> Err(MissingParameter(def.name))
           [] def.kind = "Optional" -> done_fill(p, slots, a, kw, i + 1)
           [] def.kind = "Defaulted" ->
                done_fill(p, [slots EXCEPT ![i] = def.def], a, kw, i + 1)
           [] def.kind = "Args" ->
                done_fill(p, [slots EXCEPT ![i] = VTuple(a)], <<>>, kw, i + 1)
           [] def.kind = "KWargs" ->
                done_fill(p, [slots EXCEPT ![i] = VDict(kw)], a, MapHolder_default, i + 1)

done(p, c) ==
    IF c.err # None THEN Err(c.err[1])
    ELSE done_fill(p, c.slots, c.args, c.kwargs, 1)

(***************************************************************************)
(* The call protocol as a state machine: a ParametersSpec is built, a      *)
(* collector is made from it, takes calls, and is finished by done().      *)
(*   pc       "build", "collect" or "done"                                 *)
(*   params   the ParametersSpec                                           *)
(*   col      the ParametersCollect                                        *)
(*   result   what done() returned                                         *)
(*   nextVal  the next argument value: the k-th value delivered is k       *)
(*   calls    history: every argument delivered, in call order             *)
(*   marker   history: the number of parameters declared when args() or    *)
(*            no_args() was called, None before                            *)
(***************************************************************************)
VARIABLES pc, params, col, result, nextVal, calls, marker,
          map, ref, last, ops, crossed,
          lhs, rhs,
          heap, fheap, hres, hpc,
          vrefs, cells, rres,
          locals, unscopes, module, nest, sres,
          builder, gres,
          once, tpc, tret

pvars == <<pc, params, col, result, nextVal, calls, marker>>

\* one SmallMap under a sequence of operations
mvars == <<map, ref, last, ops, crossed>>

\* two SmallMaps that are compared
evars == <<lhs, rhs>>

\* a mutable heap and a frozen heap
hvars == <<heap, fheap, hres, hpc>>

\* ValueRef objects and the Ref cells they may point at
rvars == <<vrefs, cells, rres>>

\* the name resolver of the compiler
svars == <<locals, unscopes, module, nest, sres>>

\* one GlobalsBuilder
gvars == <<builder, gres>>

\* one GlobalsStatic shared by several threads
tvars == <<once, tpc, tret>>

xvars == <<rvars, svars, gvars, tvars>>

vars == <<pvars, mvars, evars, hvars, xvars>>

NoOp == [op |-> "new", key |-> 0, val |-> 0, ret |-> None]

PIdle ==
    /\ pc = "idle"
    /\ params = [names |-> <<>>]
    /\ col = [err |-> None, first |-> None]
    /\ result = None
    /\ nextVal = 0
    /\ calls = <<>>
    /\ marker = None

MIdle ==
    /\ map = SmallMap_new
    /\ ref = <<>>
    /\ last = NoOp
    /\ ops = 0
    /\ crossed = FALSE

EIdle ==
    /\ lhs = SmallMap_new
    /\ rhs = SmallMap_new

HIdle ==
    /\ heap = <<>>
    /\ fheap = <<>>
    /\ hres = None
    /\ hpc = "idle"

RIdle ==
    /\ vrefs = <<>>
    /\ cells = <<>>
    /\ rres = None

SIdle ==
    /\ locals = <<>>
    /\ unscopes = <<>>
    /\ module = <<>>
    /\ nest = <<>>
    /\ sres = None

GIdle ==
    /\ builder = None
    /\ gres = None

TIdle ==
    /\ once = None
    /\ tpc = <<>>
    /\ tret = <<>>

XIdle == RIdle /\ SIdle /\ GIdle /\ TIdle

NamePool == <<"a", "b", "c", "d">>

ArgsName == "args"

KWargsName == "kw"

\* a name no spec declares
Undeclared == "z"

CallNames == {NamePool[i] : i \in 1..MaxParams} \cup {Undeclared}

\* a value that is neither iterable nor a dict, and not a string
Opaque == VInt(0)

DefaultVal(i) == VInt(0 - i)

NoCollect == collect(ParametersSpec_new, 0)

NoResult == [ok |-> FALSE, slots |-> <<>>, err |-> None]

\* regular parameters declared so far
Regular(p) == len(p.indices)

Fresh(k) == [i \in 1..k |-> VInt(nextVal + i - 1)]

PInit ==
    /\ pc = "build"
    /\ params = ParametersSpec_new
    /\ col = NoCollect
    /\ result = NoResult
    /\ nextVal = 1
    /\ calls = <<>>
    /\ marker = None
    /\ MIdle
    /\ EIdle
    /\ HIdle
    /\ XIdle

\* `*args` / `**kwargs` in well-formed locations: nothing follows **kwargs
CanAdd ==
    /\ pc = "build"
    /\ params.kwargs = None
    /\ Regular(params) < MaxParams
    /\ add_assert(params, NamePool[Regular(params) + 1])

BuildRest == UNCHANGED <<pc, col, result, nextVal, calls, mvars, evars, hvars, xvars>>

CallRest == UNCHANGED <<pc, params, result, marker, mvars, evars, hvars, xvars>>

BuildRequired ==
    /\ CanAdd
    /\ params' = required(params, NamePool[Regular(params) + 1])
    /\ UNCHANGED marker
    /\ BuildRest

BuildOptional ==
    /\ CanAdd
    /\ params' = optional(params, NamePool[Regular(params) + 1])
    /\ UNCHANGED marker
    /\ BuildRest

BuildDefaulted ==
    /\ CanAdd
    /\ params' = defaulted(params, NamePool[Regular(params) + 1],
                           DefaultVal(Regular(params) + 1))
    /\ UNCHANGED marker
    /\ BuildRest

BuildArgs ==
    /\ pc = "build"
    /\ params.kwargs = None
    /\ params.args = None /\ ~params.no_args
    /\ params' = ParametersSpec_args(params, ArgsName)
    /\ marker' = Some(Len(params.names))
    /\ BuildRest

BuildNoArgs ==
    /\ pc = "build"
    /\ params.kwargs = None
    /\ params.args = None /\ ~params.no_args
    /\ params' = ParametersSpec_no_args(params)
    /\ marker' = Some(Len(params.names))
    /\ BuildRest

BuildKWargs ==
    /\ pc = "build"
    /\ params.kwargs = None
    /\ params' = ParametersSpec_kwargs(params, KWargsName)
    /\ UNCHANGED marker
    /\ BuildRest

Collect ==
    /\ pc = "build"
    /\ \E slots \in {0, Len(params.names) + 1} : col' = collect(params, slots)
    /\ pc' = "collect"
    /\ UNCHANGED <<params, result, nextVal, calls, marker, mvars, evars, hvars, xvars>>

\* a call that delivers k arguments
CanCall(k) ==
    /\ pc = "collect"
    /\ nextVal + k - 1 <= MaxArgs

Pos1(v) == [kind |-> "pos", name |-> "", val |-> v]

Named1(name, v) == [kind |-> "named", name |-> name, val |-> v]

CallPositional ==
    /\ CanCall(1)
    /\ col' = positional(params, col, VInt(nextVal))
    /\ calls' = Append(calls, Pos1(VInt(nextVal)))
    /\ nextVal' = nextVal + 1
    /\ CallRest

CallNamed ==
    /\ CanCall(1)
    /\ \E name \in CallNames :
          /\ col' = named(params, col, name, VStr(name), VInt(nextVal))
          /\ calls' = Append(calls, Named1(name, VInt(nextVal)))
    /\ nextVal' = nextVal + 1
    /\ CallRest

CallArgs ==
    /\ \E k \in 0..MaxArgs :
          /\ CanCall(k)
          /\ col' = args(params, col, VTuple(Fresh(k)))
          /\ calls' = calls \o [i \in 1..k |-> Pos1(Fresh(k)[i])]
          /\ nextVal' = nextVal + k
    /\ CallRest

CallArgsNotIterable ==
    /\ CanCall(0)
    /\ col' = args(params, col, Opaque)
    /\ UNCHANGED <<nextVal, calls>>
    /\ CallRest

\* the keys a **splat dict may hold: names, and one key that is not a string
SplatKeys == {VStr(n) : n \in CallNames} \cup {Opaque}

\* the sequences of k distinct keys
KeySeqs(k) ==
    {ks \in [1..k -> SplatKeys] : \A i, j \in 1..k : i # j => ks[i] # ks[j]}

\* the dict a caller holds: built by inserting its entries one by one
DictOf(ks) == VDict(InsertAll(SmallMap_new, [i \in 1..Len(ks) |-> <<ks[i], Fresh(Len(ks))[i]>>]))

\* what a **splat delivers: a named argument per entry, in the dict's order
\* (kind "badkey" for an entry whose key is not a string)
NamedOf(es) ==
    [i \in 1..Len(es) |->
        IF es[i][1].tag = "str" THEN Named1(es[i][1].s, es[i][2])
        ELSE [kind |-> "badkey", name |-> "", val |-> es[i][2]]]

CallKWargs ==
    /\ \E k \in 0..MaxArgs :
          /\ CanCall(k)
          /\ \E ks \in KeySeqs(k) :
                /\ col' = kwargs(params, col, DictOf(ks))
                /\ calls' = calls \o NamedOf(DictOf(ks).items)
          /\ nextVal' = nextVal + k
    /\ CallRest

CallKWargsNotDict ==
    /\ CanCall(0)
    /\ col' = kwargs(params, col, Opaque)
    /\ UNCHANGED <<nextVal, calls>>
    /\ CallRest

Done ==
    /\ pc = "collect"
    /\ result' = done(params, col)
    /\ pc' = "done"
    /\ UNCHANGED <<params, col, nextVal, calls, marker, mvars, evars, hvars, xvars>>

PNext ==
    \/ BuildRequired
    \/ BuildOptional
    \/ BuildDefaulted
    \/ BuildArgs
    \/ BuildNoArgs
    \/ BuildKWargs
    \/ Collect
    \/ CallPositional
    \/ CallNamed
    \/ CallArgs
    \/ CallArgsNotIterable
    \/ CallKWargs
    \/ CallKWargsNotDict
    \/ Done

SpecParams == PInit /\ [][PNext]_vars

(***************************************************************************)
(* What the call protocol is to do, stated over the history of a call      *)
(* sequence and not over the collector's own fields.                       *)
(***************************************************************************)
IsRegular(kind) == kind \in {"Required", "Optional", "Defaulted"}

Kinds(p) == [i \in 1..Len(p.names) |-> p.names[i].kind]

Declared(p, name) ==
    \E i \in 1..Len(p.names) : p.names[i].name = name /\ IsRegular(p.names[i].kind)

IndexOfName(p, name) == CHOOSE i \in 1..Len(p.names) : p.names[i].name = name

\* the parameters that may be filled by position: those declared before
\* args() / no_args(), all of them when neither was called
PosCount ==
    IF marker = None
    THEN Cardinality({i \in 1..Len(params.names) : IsRegular(params.names[i].kind)})
    ELSE marker[1]

IsPos(d) == d.kind = "pos"

\* the positional arguments of a call sequence, in call order
PosVals(ds) == LET s == SelectSeq(ds, IsPos) IN [i \in 1..Len(s) |-> s[i].val]

\* the values given by name to `name`, in call order
NamedVals(ds, name) ==
    LET Test(d) == d.kind = "named" /\ d.name = name
        s == SelectSeq(ds, Test)
    IN [i \in 1..Len(s) |-> s[i].val]

\* the named arguments that match no declared parameter, in call order
UnmatchedNamed(p, ds) ==
    LET Test(d) == d.kind = "named" /\ ~Declared(p, d.name)
        s == SelectSeq(ds, Test)
    IN [i \in 1..Len(s) |-> <<VStr(s[i].name), s[i].val>>]

\* two values are the same value (a dict's storage shape set aside)
SameValue(a, b) ==
    /\ a.tag = b.tag
    /\ a.n = b.n
    /\ a.s = b.s
    /\ a.items = b.items

\* the value bound to the i-th declared parameter by the call sequence ds
Expected(p, ds, i) ==
    LET def == p.names[i]
        P == PosVals(ds)
        N == NamedVals(ds, def.name)
    IN CASE def.kind = "Args" -> VTuple(SubSeq(P, PosCount + 1, Len(P)))
         [] def.kind = "KWargs" ->
                VDict([shape |-> "", entries |-> UnmatchedNamed(p, ds)])
         [] OTHER ->
                IF i <= PosCount /\ i <= Len(P) THEN P[i]
                ELSE IF N # <<>> THEN N[1]
                ELSE IF def.kind = "Defaulted" THEN def.def
                ELSE Unassigned

\* the required parameters whose slot the calls left unassigned
Missing(p, c) ==
    {i \in 1..Len(p.names) : p.names[i].kind = "Required" /\ is_unassigned(c.slots[i])}

FirstMissing(p, c) == CHOOSE i \in Missing(p, c) : \A j \in Missing(p, c) : i <= j

\* C1: when done() accepts a call sequence, the slot of every declared
\* parameter holds the value bound to it: the argument supplied for it, else
\* its default, else (for *args) the tuple of the overflow positionals in call
\* order, else (for **kwargs) the dict of the unmatched named arguments in
\* call order; and the slot of every parameter that is not Optional is assigned
C1_SlotsBound ==
    (pc = "done" /\ result.ok) =>
        /\ Len(result.slots) >= Len(params.names)
        /\ \A i \in 1..Len(params.names) :
              /\ SameValue(result.slots[i], Expected(params, calls, i))
              /\ params.names[i].kind # "Optional" => ~is_unassigned(result.slots[i])

\* f(1, z=2) on (a, b = d, *args, **kw) gives a = 1, b = d, args = (), kw = {z: 2}
C1_Witness ==
    /\ pc = "done"
    /\ result.ok
    /\ Kinds(params) = <<"Required", "Defaulted", "Args", "KWargs">>
    /\ calls = <<Pos1(VInt(1)), Named1(Undeclared, VInt(2))>>
    /\ result.slots[1] = VInt(1)
    /\ result.slots[2] = DefaultVal(2)
    /\ result.slots[3] = VTuple(<<>>)
    /\ result.slots[4].tag = "dict"
    /\ result.slots[4].items = <<<<VStr(Undeclared), VInt(2)>>>>

\* C2: the error the collector holds is the first one any call raised, later
\* calls do not replace it, and done() returns it whatever is missing or extra
C2_FirstErrorWins ==
    /\ col.err = col.first
    /\ (pc = "done" /\ col.first # None) => result = Err(col.first[1])

\* a name given twice after a splat that was not iterable: the later
\* RepeatedParameter did not replace ArgsArrayIsNotIterable, and done()
\* returned it although a required parameter is missing
C2_Witness ==
    /\ pc = "done"
    /\ col.first = Some(ArgsArrayIsNotIterable)
    /\ \E i, j \in 1..Len(calls) :
          /\ i < j
          /\ calls[i].kind = "named" /\ calls[j].kind = "named"
          /\ calls[i].name = calls[j].name
    /\ Missing(params, col) # {}
    /\ result = Err(ArgsArrayIsNotIterable)

\* a parameter, or a name of the **kwargs overflow, that holds a value already
Occupied(p, c, name) ==
    IF Declared(p, name)
    THEN ~is_unassigned(c.slots[IndexOfName(p, name)])
    ELSE \E i \in 1..Len(c.kwargs.entries) : c.kwargs.entries[i][1] = VStr(name)

\* the j-th argument of the call ds arrives for a parameter that holds a
\* value: a named argument by its name, a positional one by its position
RepeatAt(ds, j) ==
    CASE ds[j].kind = "named" -> Occupied(params, col, ds[j].name)
      [] ds[j].kind = "pos" ->
            /\ col.next_position + j <= PosCount
            /\ ~is_unassigned(col.slots[col.next_position + j])
      [] OTHER -> FALSE

\* the call ds is cut short at j: a repeat, or a **splat key that is no string
StopAt(ds, j) == ds[j].kind = "badkey" \/ RepeatAt(ds, j)

FirstStop(ds) ==
    CHOOSE j \in 1..Len(ds) : StopAt(ds, j) /\ \A i \in 1..(j - 1) : ~StopAt(ds, i)

RepeatedName(ds, j) ==
    IF ds[j].kind = "named" THEN ds[j].name
    ELSE params.names[col.next_position + j].name

\* the names a call sequence gave a value to twice by name
TwiceNamed(ds) ==
    {ds[i].name : i \in {i \in 1..Len(ds) :
        /\ ds[i].kind = "named"
        /\ \E j \in 1..(i - 1) : ds[j].kind = "named" /\ ds[j].name = ds[i].name}}

\* C3 as claimed: a parameter that receives a value twice yields
\* RepeatedParameter naming that parameter: when a call sequence gave a name
\* two values, done() returns RepeatedParameter for a name given twice
C3_Original ==
    (pc = "done" /\ TwiceNamed(calls) # {}) =>
        \E n \in TwiceNamed(calls) : result = Err(RepeatedParameter(n))

\* C3, amended: a call whose argument arrives for a parameter (or a name of
\* the **kwargs overflow) that already holds a value records
\* RepeatedParameter naming that parameter, whichever way the two values
\* arrive, unless an earlier call already recorded an error (first error
\* wins); done() returns the recorded error
C3_RepeatedStep ==
    LET ds == SubSeq(calls', Len(calls) + 1, Len(calls')) IN
    (/\ pc = "collect"
     /\ col.err = None
     /\ \E j \in 1..Len(ds) : StopAt(ds, j))
    => (RepeatAt(ds, FirstStop(ds))
        => col'.err = Some(RepeatedParameter(RepeatedName(ds, FirstStop(ds)))))

\* C3, amended, as a property of every behaviour: each call step records the
\* repeat as above, and done() returns the error the collector recorded
C3_Repeated ==
    /\ [][C3_RepeatedStep]_pvars
    /\ [](pc = "done" /\ col.err # None => result = Err(col.err[1]))

\* f(1, 2, b = 3) on (a, b = d, *args, **kw): b is given by position, then by name
C3_Witness ==
    /\ pc = "done"
    /\ Kinds(params) = <<"Required", "Defaulted", "Args", "KWargs">>
    /\ calls = <<Pos1(VInt(1)), Pos1(VInt(2)), Named1("b", VInt(3))>>
    /\ result = Err(RepeatedParameter("b"))

\* the value done() is to leave in slot i of a collector with no error
Finalized(p, c, i) ==
    IF ~is_unassigned(c.slots[i]) THEN c.slots[i]
    ELSE CASE p.names[i].kind = "Optional" -> Unassigned
           [] p.names[i].kind = "Defaulted" -> p.names[i].def
           [] p.names[i].kind = "Args" -> VTuple(c.args)
           [] p.names[i].kind = "KWargs" -> VDict(c.kwargs)
           [] OTHER -> Unassigned

Same(a, b) == a.tag = b.tag /\ a = b

\* C4: with no error recorded, done() returns MissingParameter naming the
\* first unassigned Required parameter; otherwise the slots it returns hold,
\* for an unassigned slot, nothing (Optional), the default (Defaulted), the
\* tuple of the positional overflow (Args) or the dict of the named overflow
\* (KWargs), and an assigned slot is left as it was
C4_Finalize ==
    (pc = "done" /\ col.err = None) =>
        IF Missing(params, col) # {}
        THEN result = Err(MissingParameter(params.names[FirstMissing(params, col)].name))
        ELSE result.ok =>
                /\ Len(result.slots) = Len(col.slots)
                /\ \A i \in 1..Len(params.names) :
                      Same(result.slots[i], Finalized(params, col, i))
                /\ \A i \in (Len(params.names) + 1)..Len(col.slots) :
                      Same(result.slots[i], col.slots[i])

\* f(1, z = 2) on (*args, a = ?, b = d, **kw): every kind of unfilled slot
C4_Witness ==
    /\ pc = "done"
    /\ result.ok
    /\ Kinds(params) = <<"Args", "Optional", "Defaulted", "KWargs">>
    /\ calls = <<Pos1(VInt(1)), Named1(Undeclared, VInt(2))>>
    /\ result.slots[1] = VTuple(<<VInt(1)>>)
    /\ is_unassigned(result.slots[2])
    /\ result.slots[3] = DefaultVal(2)
    /\ result.slots[4].tag = "dict"

SurplusPositional == col.args # <<>> /\ params.args = None

SurplusNamed == ~is_empty(col.kwargs) /\ params.kwargs = None

\* C5 as claimed: done() checks the recorded error, then the unfilled slots,
\* then the surplus positional arguments, then the surplus named arguments
C5_Original ==
    pc = "done" =>
        IF col.err # None THEN result = Err(col.err[1])
        ELSE IF Missing(params, col) # {} THEN result.err[1].kind = "MissingParameter"
        ELSE IF SurplusPositional
             THEN result = Err(ExtraPositionalParameters(Len(col.args)))
        ELSE IF SurplusNamed
             THEN result = Err(ExtraNamedParameters(str_names(keys(col.kwargs))))
        ELSE result.ok

\* C5, amended: done() checks the recorded error, then the unfilled slots,
\* then the surplus named arguments, then the surplus positional arguments:
\* a call with both kinds of surplus returns ExtraNamedParameters
C5_DoneOrder ==
    pc = "done" =>
        IF col.err # None THEN result = Err(col.err[1])
        ELSE IF Missing(params, col) # {} THEN result.err[1].kind = "MissingParameter"
        ELSE IF SurplusNamed
             THEN result = Err(ExtraNamedParameters(str_names(keys(col.kwargs))))
        ELSE IF SurplusPositional
             THEN result = Err(ExtraPositionalParameters(Len(col.args)))
        ELSE result.ok

\* a call with a surplus positional and a surplus named argument
C5_Witness ==
    /\ pc = "done"
    /\ col.err = None
    /\ Missing(params, col) = {}
    /\ SurplusPositional
    /\ SurplusNamed
    /\ result = Err(ExtraNamedParameters(<<Undeclared>>))

\* a parameter is declared after the marker
AfterMarker(i) == i > PosCount /\ IsRegular(params.names[i].kind)

\* the parts of C6 that stand: the positional count is the number of
\* parameters declared before args() / no_args(); a parameter declared after
\* it holds only a value given by its name; with no error every positional
\* argument beyond the count is in the overflow, in call order
C6_ByNameOnly ==
    /\ params.positional = PosCount
    /\ pc # "build" =>
          /\ \A i \in 1..Len(params.names) :
                (AfterMarker(i) /\ ~is_unassigned(col.slots[i])) =>
                    \E k \in 1..Len(calls) :
                        /\ calls[k].kind = "named"
                        /\ calls[k].name = params.names[i].name
                        /\ calls[k].val = col.slots[i]
          /\ col.err = None =>
                col.args = SubSeq(PosVals(calls), PosCount + 1, Len(PosVals(calls)))

Surplus == Len(PosVals(calls)) - PosCount

\* C6 as claimed: with no_args(), any positional argument beyond the count
\* makes done() return ExtraPositionalParameters with the surplus count
C6_Original ==
    /\ C6_ByNameOnly
    /\ (pc = "done" /\ params.no_args /\ Surplus > 0) =>
          result = Err(ExtraPositionalParameters(Surplus))

\* C6, amended: as claimed, but done() returns ExtraPositionalParameters only
\* when it has not returned before: no error was recorded, no required
\* parameter is missing and no named argument is surplus
C6_NamedOnlyAfterMarker ==
    /\ C6_ByNameOnly
    /\ (/\ pc = "done" /\ params.no_args /\ Surplus > 0
        /\ col.err = None
        /\ Missing(params, col) = {}
        /\ ~SurplusNamed) =>
          result = Err(ExtraPositionalParameters(Surplus))

\* f(1, 2, b = 3) on (a, *, b): b is filled by name, 2 is surplus
C6_Witness ==
    /\ pc = "done"
    /\ params.no_args
    /\ Kinds(params) = <<"Required", "Required">>
    /\ marker = Some(1)
    /\ calls = <<Pos1(VInt(1)), Pos1(VInt(2)), Named1("b", VInt(3))>>
    /\ col.slots[2] = VInt(3)
    /\ result = Err(ExtraPositionalParameters(1))

(***************************************************************************)
(* One SmallMap under insert, remove, reserve and clear.                   *)
(* The map is constructed as the tests construct theirs: new() or          *)
(* with_capacity(n), then one insert per key, in ascending or descending   *)
(* key order.  ref is the history of the map: the surviving entries in     *)
(* the order their keys were inserted since they were last absent.         *)
(***************************************************************************)
MaxKey == THRESHOLD + ExtraKeys

MapKeys == 1..MaxKey

\* n entries (k, k): keys 1..n ascending, or n..1 descending
Entries(n, descending) ==
    [i \in 1..n |-> IF descending THEN <<n + 1 - i, n + 1 - i>> ELSE <<i, i>>]

\* the value of the ops-th operation: no entry held it before
FreshVal == 100 + ops + 1

HasKey(r, k) == \E i \in 1..Len(r) : r[i][1] = k

RefInsert(r, k, v) ==
    IF HasKey(r, k)
    THEN [i \in 1..Len(r) |-> IF r[i][1] = k THEN <<k, v>> ELSE r[i]]
    ELSE Append(r, <<k, v>>)

RefRemove(r, k) == SelectSeq(r, LAMBDA e : e[1] # k)

MInit ==
    /\ \E base \in {SmallMap_new, SmallMap_with_capacity(THRESHOLD)},
          n \in 0..(THRESHOLD - 1), descending \in BOOLEAN :
          /\ map = InsertAll(base, Entries(n, descending))
          /\ ref = Entries(n, descending)
    /\ last = NoOp
    /\ ops = 0
    /\ crossed = FALSE
    /\ PIdle
    /\ EIdle
    /\ HIdle
    /\ XIdle

MRest == UNCHANGED <<pvars, evars, hvars, xvars>>

\* the storage is promoted from the vector to the index map in this step
Promoted == map.shape = "Vec" /\ map'.shape = "Map"

MapInsert ==
    /\ ops < MaxOps
    /\ \E k \in MapKeys :
          LET r == insert(map, k, FreshVal) IN
          /\ map' = r.m
          /\ last' = [op |-> "insert", key |-> k, val |-> FreshVal, ret |-> r.ret]
          /\ ref' = RefInsert(ref, k, FreshVal)
    /\ ops' = ops + 1
    /\ crossed' = (crossed \/ Promoted)
    /\ MRest

MapRemove ==
    /\ ops < MaxOps
    /\ \E k \in MapKeys :
          LET r == remove(map, k) IN
          /\ map' = r.m
          /\ last' = [op |-> "remove", key |-> k, val |-> 0, ret |-> r.ret]
          /\ ref' = RefRemove(ref, k)
    /\ ops' = ops + 1
    /\ crossed' = crossed
    /\ MRest

MapReserve ==
    /\ ops < MaxOps
    /\ \E additional \in {0, 1, THRESHOLD, THRESHOLD + 1} :
          /\ map' = reserve(map, additional)
          /\ last' = [op |-> "reserve", key |-> 0, val |-> additional, ret |-> None]
    /\ ref' = ref
    /\ ops' = ops + 1
    /\ crossed' = (crossed \/ Promoted)
    /\ MRest

\* clear is not counted in ops: it only ever leads to the empty map
MapClear ==
    /\ map' = clear(map)
    /\ last' = [op |-> "clear", key |-> 0, val |-> 0, ret |-> None]
    /\ ref' = <<>>
    /\ ops' = ops
    /\ crossed' = crossed
    /\ MRest

MNext ==
    \/ MapInsert
    \/ MapRemove
    \/ MapReserve
    \/ MapClear

SpecMap == MInit /\ [][MNext]_vars

(***************************************************************************)
(* Two SmallMaps, each under insert and remove, compared by eq and hash.   *)
(***************************************************************************)
EqKeys == 1..MaxEqKeys

EqVals == 1..MaxEqVals

EInit ==
    /\ lhs \in {SmallMap_new, SmallMap_with_capacity(THRESHOLD)}
    /\ rhs \in {SmallMap_new, SmallMap_with_capacity(THRESHOLD)}
    /\ PIdle
    /\ MIdle
    /\ HIdle
    /\ XIdle

ERest == UNCHANGED <<pvars, mvars, hvars, xvars>>

InsertLhs ==
    /\ \E k \in EqKeys, v \in EqVals : lhs' = insert(lhs, k, v).m
    /\ rhs' = rhs
    /\ ERest

InsertRhs ==
    /\ \E k \in EqKeys, v \in EqVals : rhs' = insert(rhs, k, v).m
    /\ lhs' = lhs
    /\ ERest

RemoveLhs ==
    /\ \E k \in EqKeys : lhs' = remove(lhs, k).m
    /\ rhs' = rhs
    /\ ERest

RemoveRhs ==
    /\ \E k \in EqKeys : rhs' = remove(rhs, k).m
    /\ lhs' = lhs
    /\ ERest

ENext ==
    \/ InsertLhs
    \/ InsertRhs
    \/ RemoveLhs
    \/ RemoveRhs

SpecMapEq == EInit /\ [][ENext]_vars

RefKeys == [i \in 1..Len(ref) |-> ref[i][1]]

RefVals == [i \in 1..Len(ref) |-> ref[i][2]]

\* C7: SmallMap iterates in insertion order: after any sequence of insert,
\* remove, reserve and clear, the iteration by key, by value, by entry and
\* by hashed entry yields exactly the surviving entries, each key once, in
\* the order the keys were first inserted since they were last absent
C7_InsertionOrder ==
    /\ iter(map) = ref
    /\ iter_hashed(map) = ref
    /\ keys(map) = RefKeys
    /\ values(map) = RefVals
    /\ \A i, j \in 1..Len(keys(map)) : keys(map)[i] = keys(map)[j] => i = j

\* key 1 of (1, 2, 3) is removed and inserted again: it iterates last
C7_Witness ==
    /\ ops = 2
    /\ last.op = "insert"
    /\ last.key = 1
    /\ iter(map) = <<<<2, 2>>, <<3, 3>>, <<1, 102>>>>

\* C8: insert(k, v) on a key already present returns Some(prior value),
\* leaves len and the position of every key unchanged and makes get(k)
\* return v, in every storage shape and when the insert promotes the storage
C8_ReplaceStep ==
    (last'.op = "insert" /\ ops' = ops + 1 /\ contains_key(map, last'.key)) =>
        /\ last'.ret = Some(get(map, last'.key)[1])
        /\ len(map') = len(map)
        /\ keys(map') = keys(map)
        /\ get(map', last'.key) = Some(last'.val)
        /\ \A k \in MapKeys : k # last'.key => get(map', k) = get(map, k)

\* C8 as a property of every behaviour: each insert step on a present key
\* replaces in place
C8_Replace == [][C8_ReplaceStep]_mvars

\* an insert on a present key of a vector of THRESHOLD - 1 entries: the
\* storage is promoted, the prior value is returned and the key stays first
C8_Witness ==
    /\ ops = 1
    /\ last.op = "insert"
    /\ last.key = 1
    /\ last.ret = Some(1)
    /\ crossed
    /\ map.shape = "Map"
    /\ len(map) = THRESHOLD - 1
    /\ keys(map)[1] = 1
    /\ get(map, 1) = Some(101)

\* C9: once a sequence of inserts has crossed the promotion threshold,
\* get_index(i) returns the i-th inserted entry for every i < len and None
\* for i >= len: the drain from the vector to the index map keeps the order
C9_GetIndex ==
    crossed =>
        \A i \in 0..(len(map) + 1) :
            get_index(map, i) = IF i < Len(ref) THEN Some(ref[i + 1]) ELSE None

\* THRESHOLD - 1 keys in descending order, then two more inserts of new keys
C9_Witness ==
    /\ crossed
    /\ ops = 2
    /\ map.shape = "Map"
    /\ len(map) = THRESHOLD + 1
    /\ get_index(map, 0) = Some(<<THRESHOLD - 1, THRESHOLD - 1>>)
    /\ get_index(map, THRESHOLD - 1) = Some(<<THRESHOLD, 101>>)
    /\ get_index(map, THRESHOLD) = Some(<<THRESHOLD + 1, 102>>)
    /\ get_index(map, THRESHOLD + 1) = None

EntrySet(m) == {m.entries[i] : i \in 1..Len(m.entries)}

\* the wrapping sum of the entry hashes of a set of entries
RECURSIVE SetSum(_)
SetSum(S) ==
    IF S = {} THEN Zero64
    ELSE LET e == CHOOSE x \in S : TRUE IN WrappingAdd(EntryHash(e), SetSum(S \ {e}))

\* C10: two maps are equal iff they have the same length and every key of
\* the first maps to the same value in the second; two maps that hold the
\* same entries, in any insertion orders and storage shapes, are equal and
\* have equal hashes, the hash being the sum modulo 2^64 of the entry hashes
C10_EqHash ==
    /\ eq(lhs, rhs) <=>
          /\ len(lhs) = len(rhs)
          /\ \A k \in EqKeys : contains_key(lhs, k) => get(rhs, k) = get(lhs, k)
    /\ EntrySet(lhs) = EntrySet(rhs) => (eq(lhs, rhs) /\ hash(lhs) = hash(rhs))
    /\ hash(lhs) = SetSum(EntrySet(lhs))

\* the same two entries in opposite orders and different shapes; their
\* hashes sum past 2^64
C10_Witness ==
    /\ lhs.shape = "Vec"
    /\ rhs.shape = "Map"
    /\ iter(lhs) = <<<<1, 2>>, <<2, 1>>>>
    /\ iter(rhs) = <<<<2, 1>>, <<1, 2>>>>
    /\ eq(lhs, rhs)
    /\ hash(lhs) = hash(rhs)
    /\ hash(lhs)[4] < EntryHash(<<1, 2>>)[4]

\* C11: remove(k) is a shift-remove: it returns the removed value (None and
\* no change when k is absent), decreases len by one, and every other entry
\* keeps its index when it was before k and moves down by one when it was
\* after k
C11_ShiftRemoveStep ==
    (last'.op = "remove" /\ ops' = ops + 1) =>
        LET k == last'.key
            at == get_index_of(map, k) IN
        IF at = None
        THEN last'.ret = None /\ map' = map
        ELSE /\ last'.ret = get(map, k)
             /\ last'.ret # None
             /\ len(map') = len(map) - 1
             /\ ~contains_key(map', k)
             /\ \A i \in 0..(len(map) - 1) :
                   /\ i < at[1] => get_index(map', i) = get_index(map, i)
                   /\ i > at[1] => get_index(map', i - 1) = get_index(map, i)

\* C11 as a property of every behaviour: each remove step is a shift-remove
C11_ShiftRemove == [][C11_ShiftRemoveStep]_mvars

\* the middle key of (1, 2, 3) is removed: (3, 3) is now at index 1
C11_Witness ==
    /\ ops = 1
    /\ last = [op |-> "remove", key |-> 2, val |-> 0, ret |-> Some(2)]
    /\ iter(map) = <<<<1, 1>>, <<3, 3>>>>
    /\ get_index(map, 1) = Some(<<3, 3>>)

\* the reference: an association list in insertion order
RefPos(r, k) == IF HasKey(r, k) THEN CHOOSE i \in 1..Len(r) : r[i][1] = k ELSE 0

RefGet(r, k) == IF HasKey(r, k) THEN Some(r[RefPos(r, k)][2]) ELSE None

\* every accessor of the map answers as the reference does
C12_Accessors ==
    /\ len(map) = Len(ref)
    /\ is_empty(map) = (ref = <<>>)
    /\ iter(map) = ref
    /\ keys(map) = RefKeys
    /\ values(map) = RefVals
    /\ \A k \in MapKeys :
          /\ get(map, k) = RefGet(ref, k)
          /\ contains_key(map, k) = HasKey(ref, k)
          /\ get_index_of(map, k) =
                IF HasKey(ref, k) THEN Some(RefPos(ref, k) - 1) ELSE None
          /\ get_full(map, k) =
                IF HasKey(ref, k)
                THEN Some(<<RefPos(ref, k) - 1, k, ref[RefPos(ref, k)][2]>>)
                ELSE None
    /\ \A i \in 0..(Len(ref) + 1) :
          get_index(map, i) = IF i < Len(ref) THEN Some(ref[i + 1]) ELSE None

\* insert and remove return what the reference held for the key
C12_ReturnStep ==
    (last'.op \in {"insert", "remove"} /\ ops' = ops + 1) =>
        last'.ret = RefGet(ref, last'.key)

\* C12: the storage shape is unobservable: through every sequence of
\* with_capacity, insert, remove, reserve and clear, in the empty, vector and
\* index-map shapes, every accessor and every returned value is that of a
\* reference association list kept in insertion order
C12_Refinement == []C12_Accessors /\ [][C12_ReturnStep]_mvars

\* a map promoted by reserve and holding a single entry after a remove
C12_Witness ==
    /\ map.shape = "Map"
    /\ crossed
    /\ ops = 2
    /\ last.op = "remove"
    /\ last.ret = Some(1)
    /\ ref = <<<<2, 2>>>>
    /\ get_full(map, 2) = Some(<<0, 2, 2>>)

\* C13 as claimed: once the storage has been promoted to the index map, no
\* later insert, remove, reserve or clear brings it back to the vector
C13_Original == crossed => map.shape # "Vec"

\* C13, amended: insert, remove and reserve leave a map in the index-map
\* shape in that shape; clear puts it in the empty shape, from which the next
\* insert or small reserve goes to the vector again
C13_OneWayStep ==
    map.shape = "Map" =>
        \/ map'.shape = "Map"
        \/ last'.op = "clear" /\ map'.shape = "Empty"

C13_OneWay == [][C13_OneWayStep]_mvars

\* a vector of one entry is promoted by reserve, then emptied by remove: it
\* is still an index map
C13_Witness ==
    /\ crossed
    /\ ops = 2
    /\ last.op = "remove"
    /\ map.shape = "Map"
    /\ len(map) = 0

(***************************************************************************)
(* Values and heaps: values/layout/value.rs, values/types/list.rs,         *)
(* values/types/structs.rs.                                                *)
(* A Value is a tagged pointer [ptr, at]: ptr is the PointerUnpack case    *)
(* (Ptr1 a frozen-heap entry, Ptr2 a mutable-heap entry, Int, None,        *)
(* Unassigned) and at the entry's index in its heap, or the integer.       *)
(* A FrozenValue is a Value that is not Ptr2.                              *)
(* An object is [typ, content, fields, params]: a list has content, a      *)
(* struct has fields (a SmallMap), a def has params (its ParametersSpec).  *)
(* A mutable-heap entry (ValueMem) is [tag, obj, fv, thawed, borrow]:      *)
(*   tag     the variant                                                   *)
(*   obj     the object of Str, Simple, Immutable and Mutable              *)
(*   fv      the FrozenValue of Forward and of ThawOnWrite                 *)
(*   thawed  ThawOnWrite: Some(the Mutable copy) once thawed               *)
(*   borrow  the RefCell flag of Mutable and ThawOnWrite: -1 for an        *)
(*           exclusive borrow, else the number of shared borrows           *)
(* A frozen-heap entry (FrozenValueMem) is [tag, obj].                     *)
(***************************************************************************)
Value_new_int(x) == [ptr |-> "Int", at |-> x]

Value_new_none == [ptr |-> "None", at |-> 0]

Value_new_unassigned == [ptr |-> "Unassigned", at |-> 0]

Ptr1(i) == [ptr |-> "Ptr1", at |-> i]

Ptr2(i) == [ptr |-> "Ptr2", at |-> i]

\* Value::new_frozen and FrozenValue::to_value: the same pointer
Value_new_frozen(x) == x

\* Value::unpack_frozen
unpack_frozen(v) == IF v.ptr = "Ptr2" THEN None ELSE Some(v)

NoObj ==
    [typ |-> "none", content |-> <<>>, fields |-> SmallMap_new,
     params |-> ParametersSpec_new]

StrObj == [NoObj EXCEPT !.typ = "str"]

\* List { content }
ListObj(content) == [NoObj EXCEPT !.typ = "list", !.content = content]

\* Struct { fields }
StructObj(fields) == [NoObj EXCEPT !.typ = "struct", !.fields = fields]

\* a def, with its ParametersSpec
DefObj(p) == [NoObj EXCEPT !.typ = "def", !.params = p]

ValueMem(tag, obj) ==
    [tag |-> tag, obj |-> obj, fv |-> Value_new_none, thawed |-> None, borrow |-> 0]

\* mutant: Forward does not keep the frozen value
Forward_unset(fv) == ValueMem("Forward", NoObj)

Forward(fv) == [ValueMem("Forward", NoObj) EXCEPT !.fv = fv]

\* mutant: a cell being frozen is marked as done, not as in progress
Blackhole_forwarded == Forward(Value_new_none)

Blackhole == ValueMem("Blackhole", NoObj)

\* ThawableCell::new: frozen-backed
ThawOnWrite(fv) == [ValueMem("ThawOnWrite", NoObj) EXCEPT !.fv = fv]

FrozenValueMem(tag, obj) == [tag |-> tag, obj |-> obj]

\* ComplexValue::is_mutable: true for a list, the default (false) otherwise
is_mutable(obj) == obj.typ = "list"

\* Heap::alloc_complex: Mutable or Immutable as is_mutable reports
alloc_complex(h, obj) ==
    Append(h, ValueMem(IF is_mutable(obj) THEN "Mutable" ELSE "Immutable", obj))

\* Heap::alloc_thaw_on_write
alloc_thaw_on_write(h, fv) == Append(h, ThawOnWrite(fv))

\* FrozenList::thaw: a List of the same elements, as Values
FrozenList_thaw(fobj) ==
    ListObj([i \in 1..Len(fobj.content) |-> Value_new_frozen(fobj.content[i])])

\* FrozenValue::thaw (only a list here; a dict thaws alike)
FrozenValue_thaw(fh, fv) == FrozenList_thaw(fh[fv.at].obj)

CannotMutateImmutableValue == "CannotMutateImmutableValue"

MutationDuringIteration == "MutationDuringIteration"

\* the result of get_ref_mut: the heap after the call, Ok or the error, and
\* the index of the cell that is now exclusively borrowed (0 on an error)
RefMutOk(h, cell) == [heap |-> h, out |-> "Ok", cell |-> cell]

RefMutErr(h, err) == [heap |-> h, out |-> err, cell |-> 0]

\* mutant: try_borrow_mut looks only for an exclusive borrow
Mutable_get_ref_mut_shared(h, i) ==
    IF h[i].borrow < 0 THEN RefMutErr(h, MutationDuringIteration)
    ELSE RefMutOk([h EXCEPT ![i].borrow = -1], i)

\* the Mutable arm of ValueMem::get_ref_mut: RefCell::try_borrow_mut
Mutable_get_ref_mut(h, i) ==
    IF h[i].borrow # 0 THEN RefMutErr(h, MutationDuringIteration)
    ELSE RefMutOk([h EXCEPT ![i].borrow = -1], i)

\* ThawableCell::thaw: None while the cell is borrowed; else the cell now
\* holds the Mutable copy that f allocated
ThawableCell_thaw(h, fh, i) ==
    IF h[i].borrow # 0 THEN [heap |-> h, ret |-> None]
    ELSE LET copy == Ptr2(Len(h) + 1) IN
         [heap |-> [alloc_complex(h, FrozenValue_thaw(fh, h[i].fv))
                        EXCEPT ![i].thawed = Some(copy)],
          ret |-> Some(copy)]

\* mutant: a thawed cell is thawed again on every call
ValueMem_get_ref_mut_rethaw(h, fh, i) ==
    CASE h[i].tag = "Mutable" -> Mutable_get_ref_mut(h, i)
      [] h[i].tag = "ThawOnWrite" ->
            LET r == ThawableCell_thaw(h, fh, i) IN
            IF r.ret = None THEN RefMutErr(h, MutationDuringIteration)
            ELSE Mutable_get_ref_mut(r.heap, r.ret[1].at)
      [] OTHER -> RefMutErr(h, CannotMutateImmutableValue)

\* ValueMem::get_ref_mut
ValueMem_get_ref_mut(h, fh, i) ==
    CASE h[i].tag = "Mutable" -> Mutable_get_ref_mut(h, i)
      [] h[i].tag = "ThawOnWrite" ->
            IF h[i].thawed # None
            THEN Mutable_get_ref_mut(h, h[i].thawed[1].at)
            ELSE LET r == ThawableCell_thaw(h, fh, i) IN
                 IF r.ret = None THEN RefMutErr(h, MutationDuringIteration)
                 ELSE Mutable_get_ref_mut(r.heap, r.ret[1].at)
      [] OTHER -> RefMutErr(h, CannotMutateImmutableValue)

\* mutant: a frozen list is thawed in place of being refused
Value_get_ref_mut_thaw_frozen(h, fh, v) ==
    IF v.ptr = "Ptr2" THEN ValueMem_get_ref_mut(h, fh, v.at)
    ELSE IF v.ptr = "Ptr1" /\ fh[v.at].obj.typ = "list"
    THEN Mutable_get_ref_mut(alloc_complex(h, FrozenValue_thaw(fh, v)), Len(h) + 1)
    ELSE RefMutErr(h, CannotMutateImmutableValue)

\* Value::get_ref_mut
Value_get_ref_mut(h, fh, v) ==
    IF v.ptr = "Ptr2" THEN ValueMem_get_ref_mut(h, fh, v.at)
    ELSE RefMutErr(h, CannotMutateImmutableValue)

\* the result of get_aref: the heap after the call, the ARef case ("Ptr",
\* "Ref") or "panic", and the index of the cell the guard borrows (0 if none)
ARefPtr(h) == [heap |-> h, out |-> "Ptr", cell |-> 0]

ARefRef(h, cell) == [heap |-> [h EXCEPT ![cell].borrow = @ + 1], out |-> "Ref", cell |-> cell]

ARefPanic(h) == [heap |-> h, out |-> "panic", cell |-> 0]

\* RefCell::borrow: panics while the cell is exclusively borrowed
RefCell_borrow(h, i) == IF h[i].borrow < 0 THEN ARefPanic(h) ELSE ARefRef(h, i)

\* ValueMem::get_aref
ValueMem_get_aref(h, i) ==
    CASE h[i].tag \in {"Forward", "Str", "Simple", "Immutable"} -> ARefPtr(h)
      [] h[i].tag = "Mutable" -> RefCell_borrow(h, i)
      [] h[i].tag = "ThawOnWrite" ->
            IF h[i].thawed = None THEN RefCell_borrow(h, i)
            ELSE RefCell_borrow(h, h[i].thawed[1].at)
      [] OTHER -> ARefPanic(h)

\* Value::get_aref
Value_get_aref(h, v) ==
    CASE v.ptr = "Ptr1" -> ARefPtr(h)
      [] v.ptr = "Ptr2" -> ValueMem_get_aref(h, v.at)
      [] v.ptr = "Unassigned" -> ARefPanic(h)
      [] OTHER -> ARefPtr(h)

(***************************************************************************)
(* Freezing.  The freezer's state is [heap, fheap, err]: the mutable heap  *)
(* it reads and forwards, the frozen heap it fills, and whether it met a   *)
(* cycle.  Every freeze returns [st, ...]: the state after it.             *)
(***************************************************************************)
RECURSIVE Freezer_freeze(_, _)
RECURSIVE freeze_each(_, _, _)
RECURSIVE freeze_fields(_, _, _)
RECURSIVE freeze_names(_, _, _)

\* mutant: the elements are pushed as they are
List_freeze_shallow(st, obj) == [st |-> st, obj |-> ListObj(obj.content)]

\* mutant: the frozen elements are pushed at the front
List_freeze_reversed(st, obj) ==
    LET r == freeze_each(st, obj.content, <<>>) IN
    [st |-> r.st, obj |-> ListObj(Reverse(r.out))]

\* List::freeze: content.push(v.freeze(freezer)) for v in self.content
List_freeze(st, obj) ==
    LET r == freeze_each(st, obj.content, <<>>) IN
    [st |-> r.st, obj |-> ListObj(r.out)]

\* the loop of List::freeze
freeze_each(st, vs, out) ==
    IF vs = <<>> THEN [st |-> st, out |-> out]
    ELSE LET r == Freezer_freeze(st, vs[1]) IN
         freeze_each(r.st, Tail(vs), Append(out, r.fv))

\* Struct::freeze: frozen.insert_hashed(k, v.freeze(freezer)) for (k, v) in
\* self.fields, into SmallMap::with_capacity(self.fields.len())
Struct_freeze(st, obj) ==
    LET r == freeze_fields(st, iter_hashed(obj.fields),
                           SmallMap_with_capacity(len(obj.fields))) IN
    [st |-> r.st, obj |-> StructObj(r.out)]

\* the loop of Struct::freeze
freeze_fields(st, es, frozen) ==
    IF es = <<>> THEN [st |-> st, out |-> frozen]
    ELSE LET r == Freezer_freeze(st, es[1][2]) IN
         freeze_fields(r.st, Tail(es), insert_hashed(frozen, es[1][1], r.fv).m)

\* ParameterDefault::freeze: only Defaulted holds a value
ParameterDefault_freeze(st, d) ==
    IF d.kind = "Defaulted"
    THEN LET r == Freezer_freeze(st, d.def) IN [st |-> r.st, d |-> [d EXCEPT !.def = r.fv]]
    ELSE [st |-> st, d |-> d]

\* ParametersSpec::freeze: names.into_map(|(s, v)| (s, v.freeze(freezer)))
ParametersSpec_freeze(st, p) ==
    LET r == freeze_names(st, p.names, <<>>) IN
    [st |-> r.st, obj |-> DefObj([p EXCEPT !.names = r.out])]

\* the map of ParametersSpec::freeze over names
freeze_names(st, ns, out) ==
    IF ns = <<>> THEN [st |-> st, out |-> out]
    ELSE LET r == ParameterDefault_freeze(st, ns[1]) IN
         freeze_names(r.st, Tail(ns), Append(out, r.d))

\* ComplexValue::freeze of the object of an entry
ComplexValue_freeze(st, obj) ==
    CASE obj.typ = "list" -> List_freeze(st, obj)
      [] obj.typ = "struct" -> Struct_freeze(st, obj)
      [] obj.typ = "def" -> ParametersSpec_freeze(st, obj.params)

\* Freezer::freeze: an immediate or frozen value is returned as it is, a
\* Forward is followed, a Blackhole is a cycle; otherwise the source entry
\* is made a Blackhole, a frozen entry is reserved, the object is frozen
\* into it, and the source entry is made Forward(the frozen entry)
Freezer_freeze(st, v) ==
    IF st.err \/ v.ptr # "Ptr2" THEN [st |-> st, fv |-> v]
    ELSE LET e == st.heap[v.at]
             to == Len(st.fheap) + 1 IN
         CASE e.tag = "Forward" -> [st |-> st, fv |-> e.fv]
           [] e.tag \in {"Str", "Simple"} ->
                [st |-> [st EXCEPT !.heap[v.at] = Forward(Ptr1(to)),
                                   !.fheap = Append(@, FrozenValueMem(e.tag, e.obj))],
                 fv |-> Ptr1(to)]
           [] e.tag \in {"Mutable", "Immutable"} ->
                LET r == ComplexValue_freeze(
                             [st EXCEPT !.heap[v.at] = Blackhole,
                                        !.fheap = Append(@, FrozenValueMem("Blackhole", NoObj))],
                             e.obj) IN
                IF r.st.err THEN [st |-> r.st, fv |-> v]
                ELSE [st |-> [r.st EXCEPT !.heap[v.at] = Forward(Ptr1(to)),
                                          !.fheap[to] = FrozenValueMem("Simple", r.obj)],
                      fv |-> Ptr1(to)]
           [] OTHER -> [st |-> [st EXCEPT !.err = TRUE], fv |-> v]

\* ValueRef::freeze: freezer.freeze(self.get_cell().get())
ValueRef_freeze(st, v) == Freezer_freeze(st, v)

(***************************************************************************)
(* One evaluation over a mutable heap, beside the frozen heap of a module  *)
(* frozen earlier (it holds the list [1]).  Values are allocated,          *)
(* borrowed, mutated through an exclusive borrow, and frozen.              *)
(*   heap   the mutable heap                                               *)
(*   fheap  the frozen heap                                                *)
(*   hres   the last operation: its argument, what it returned, and what   *)
(*          its argument was when it was called                            *)
(*   hpc    "run"; "panicked" after a panic; "cyclic" after CyclicFreeze   *)
(***************************************************************************)
HOp(op, arg, out, cell, fv, was) ==
    [op |-> op, arg |-> arg, out |-> out, cell |-> cell, fv |-> fv, was |-> was]

\* what a value is: the variant of the entry it points at in the mutable
\* heap, else the kind of the pointer
Target(v) == IF v.ptr = "Ptr2" THEN heap[v.at].tag ELSE v.ptr

NoArg == Value_new_none

\* the values an evaluation can hold: an integer, the frozen entries, the
\* entries of its heap
Vals ==
    {Value_new_int(1)}
        \cup {Ptr1(i) : i \in 1..Len(fheap)}
        \cup {Ptr2(i) : i \in 1..Len(heap)}

FrozenLists ==
    {Ptr1(i) : i \in {j \in 1..Len(fheap) :
                        fheap[j].tag = "Simple" /\ fheap[j].obj.typ = "list"}}

HInit ==
    /\ heap = <<>>
    /\ fheap = <<FrozenValueMem("Simple", ListObj(<<Value_new_int(1)>>))>>
    /\ hres = HOp("new", NoArg, "", 0, NoArg, "")
    /\ hpc = "run"
    /\ PIdle
    /\ MIdle
    /\ EIdle
    /\ XIdle

HRest == UNCHANGED <<pvars, mvars, evars, xvars>>

CanAlloc == hpc = "run" /\ Len(heap) < MaxCells

\* heap.alloc(List::new(vec![]))
AllocList ==
    /\ CanAlloc
    /\ heap' = alloc_complex(heap, ListObj(<<>>))
    /\ hres' = HOp("alloc", Ptr2(Len(heap) + 1), "list", 0, NoArg, "")
    /\ UNCHANGED <<fheap, hpc>>
    /\ HRest

\* StructBuilder: new, add("b", v), add("a", 2), build, then heap.alloc
AllocStruct ==
    /\ CanAlloc
    /\ \E v \in Vals :
          heap' = alloc_complex(heap,
                     StructObj(insert(insert(SmallMap_new, "b", v).m,
                                      "a", Value_new_int(2)).m))
    /\ hres' = HOp("alloc", Ptr2(Len(heap) + 1), "struct", 0, NoArg, "")
    /\ UNCHANGED <<fheap, hpc>>
    /\ HRest

\* a def f(a, b = v): its ParametersSpec holds the default v
AllocDef ==
    /\ CanAlloc
    /\ \E v \in Vals :
          heap' = alloc_complex(heap,
                     DefObj(defaulted(add(ParametersSpec_new, "a", "Required",
                                          Value_new_unassigned), "b", v)))
    /\ hres' = HOp("alloc", Ptr2(Len(heap) + 1), "def", 0, NoArg, "")
    /\ UNCHANGED <<fheap, hpc>>
    /\ HRest

\* heap.alloc_str
AllocStr ==
    /\ CanAlloc
    /\ heap' = Append(heap, ValueMem("Str", StrObj))
    /\ hres' = HOp("alloc", Ptr2(Len(heap) + 1), "str", 0, NoArg, "")
    /\ UNCHANGED <<fheap, hpc>>
    /\ HRest

\* heap.alloc_thaw_on_write of a frozen list
AllocThawOnWrite ==
    /\ CanAlloc
    /\ \E fv \in FrozenLists : heap' = alloc_thaw_on_write(heap, fv)
    /\ hres' = HOp("alloc", Ptr2(Len(heap) + 1), "thaw_on_write", 0, NoArg, "")
    /\ UNCHANGED <<fheap, hpc>>
    /\ HRest

\* v.get_ref_mut(heap): the borrow it returns is held until DropRefMut; the
\* copy that a thaw allocates may be one entry more than CanAlloc allows
GetRefMut ==
    /\ hpc = "run"
    /\ \E v \in Vals :
          LET r == Value_get_ref_mut(heap, fheap, v) IN
          /\ Len(r.heap) <= MaxCells + 1
          /\ heap' = r.heap
          /\ hres' = HOp("get_ref_mut", v, r.out, r.cell, NoArg, Target(v))
    /\ UNCHANGED <<fheap, hpc>>
    /\ HRest

\* List::push through the exclusive borrow of a cell
Push ==
    /\ hpc = "run"
    /\ \E cell \in 1..Len(heap), x \in Vals \cup {Value_new_int(4)} :
          /\ heap[cell].tag = "Mutable"
          /\ heap[cell].borrow = -1
          /\ Len(heap[cell].obj.content) < MaxLen
          /\ heap' = [heap EXCEPT ![cell].obj.content = Append(@, x)]
          /\ hres' = HOp("push", x, "Ok", cell, NoArg, "")
    /\ UNCHANGED <<fheap, hpc>>
    /\ HRest

\* the RefMut of a cell is dropped
DropRefMut ==
    /\ hpc = "run"
    /\ \E cell \in 1..Len(heap) :
          /\ heap[cell].borrow = -1
          /\ heap' = [heap EXCEPT ![cell].borrow = 0]
          /\ hres' = HOp("drop_mut", NoArg, "", cell, NoArg, "")
    /\ UNCHANGED <<fheap, hpc>>
    /\ HRest

\* v.get_aref(): the guard it returns is held until DropARef (an iteration
\* holds it for its whole length)
GetARef ==
    /\ hpc = "run"
    /\ \E v \in Vals :
          LET r == Value_get_aref(heap, v) IN
          /\ \A i \in 1..Len(r.heap) : r.heap[i].borrow <= MaxBorrows
          /\ heap' = r.heap
          /\ hres' = HOp("get_aref", v, r.out, r.cell, NoArg, Target(v))
          /\ hpc' = IF r.out = "panic" THEN "panicked" ELSE hpc
    /\ UNCHANGED fheap
    /\ HRest

\* a Ref guard of a cell is dropped
DropARef ==
    /\ hpc = "run"
    /\ \E cell \in 1..Len(heap) :
          /\ heap[cell].borrow > 0
          /\ heap' = [heap EXCEPT ![cell].borrow = @ - 1]
          /\ hres' = HOp("drop", NoArg, "", cell, NoArg, "")
    /\ UNCHANGED <<fheap, hpc>>
    /\ HRest

\* freeze runs while no borrow is live
NoBorrow == \A i \in 1..Len(heap) : heap[i].borrow = 0

\* a value held in a ValueRef is frozen
Freeze ==
    /\ hpc = "run"
    /\ NoBorrow
    /\ \A i \in 1..Len(heap) : heap[i].tag # "ThawOnWrite"
    /\ \E v \in Vals :
          LET r == ValueRef_freeze([heap |-> heap, fheap |-> fheap, err |-> FALSE], v) IN
          /\ Len(r.st.fheap) <= MaxFrozen
          /\ heap' = r.st.heap
          /\ fheap' = r.st.fheap
          /\ hres' = HOp("freeze", v, IF r.st.err THEN "CyclicFreeze" ELSE "Ok", 0, r.fv,
                        Target(v))
          /\ hpc' = IF r.st.err THEN "cyclic" ELSE hpc
    /\ HRest

HNext ==
    \/ AllocList
    \/ AllocStruct
    \/ AllocDef
    \/ AllocStr
    \/ AllocThawOnWrite
    \/ GetRefMut
    \/ Push
    \/ DropRefMut
    \/ GetARef
    \/ DropARef
    \/ Freeze

SpecHeap == HInit /\ [][HNext]_vars

(***************************************************************************)
(* Claims about freezing and borrowing.                                    *)
(***************************************************************************)
\* the values an object holds: the elements of a list, the field values of
\* a struct, the parameter defaults of a def
Held(obj) ==
    {obj.content[i] : i \in 1..Len(obj.content)}
        \cup {values(obj.fields)[i] : i \in 1..len(obj.fields)}
        \cup {obj.params.names[i].def :
                i \in {j \in 1..Len(obj.params.names) :
                          obj.params.names[j].kind = "Defaulted"}}

\* the last operation was a freeze that succeeded on a mutable-heap value
Froze == hres.op = "freeze" /\ hres.out = "Ok" /\ hres.arg.ptr = "Ptr2"

\* C14: every element, field value and parameter default held by an entry
\* of the frozen heap is an immediate or a frozen-heap value, never a
\* pointer into the mutable heap.
C14_NoMutablePointer ==
    \A i \in 1..Len(fheap) : \A v \in Held(fheap[i].obj) : v.ptr # "Ptr2"

\* a freeze has frozen a container together with a mutable value it held
C14_Witness ==
    /\ Froze
    /\ \E v \in Held(fheap[hres.fv.at].obj) : v.ptr = "Ptr1" /\ v.at > 1

\* the freezer's state in the current state
Now == [heap |-> heap, fheap |-> fheap, err |-> FALSE]

\* freezing again what the last freeze was given, or what it returned,
\* returns what it returned and changes nothing
C15_Again ==
    hres.op = "freeze" /\ hres.out = "Ok"
        => \A v \in {hres.arg, hres.fv} :
              ValueRef_freeze(Now, v) = [st |-> Now, fv |-> hres.fv]

\* a freeze of an immediate or frozen value returns that value, a freeze of
\* a value whose entry is Forward(fv) returns fv, and neither changes a heap
C15_SameStep ==
    hres'.op = "freeze"
        => /\ hres'.arg.ptr # "Ptr2"
                => hres'.fv = hres'.arg /\ heap' = heap /\ fheap' = fheap
           /\ hres'.was = "Forward"
                => /\ hres'.fv = heap[hres'.arg.at].fv
                   /\ heap' = heap
                   /\ fheap' = fheap

\* C15: freezing is idempotent: an immediate or frozen value freezes to
\* itself, a value whose entry holds Forward(fv) freezes to fv, and freezing
\* the same value twice gives pointer-equal results.
C15_Idempotent == []C15_Again /\ [][C15_SameStep]_hvars

\* a value that an earlier freeze had forwarded has been frozen again
C15_Witness ==
    hres.op = "freeze" /\ hres.out = "Ok" /\ hres.was = "Forward"

RECURSIVE StructurallyEqual(_, _, _, _)
\* the value v over the mutable heap h reads the same as the frozen value
\* fv over the frozen heap fh: the same immediate or frozen pointer, or the
\* same kind of object with the same elements (fields, defaults) in the
\* same order, each reading the same
StructurallyEqual(h, fh, v, fv) ==
    IF v.ptr # "Ptr2" THEN fv = v
    ELSE IF h[v.at].tag = "Forward" THEN fv = h[v.at].fv
    ELSE LET obj == h[v.at].obj
             fobj == fh[fv.at].obj IN
         /\ fv.ptr = "Ptr1"
         /\ fobj.typ = obj.typ
         /\ Len(fobj.content) = Len(obj.content)
         /\ \A i \in 1..Len(obj.content) :
               StructurallyEqual(h, fh, obj.content[i], fobj.content[i])
         /\ keys(fobj.fields) = keys(obj.fields)
         /\ \A i \in 1..len(obj.fields) :
               StructurallyEqual(h, fh, values(obj.fields)[i], values(fobj.fields)[i])
         /\ Len(fobj.params.names) = Len(obj.params.names)
         /\ \A i \in 1..Len(obj.params.names) :
               /\ fobj.params.names[i].name = obj.params.names[i].name
               /\ fobj.params.names[i].kind = obj.params.names[i].kind
               /\ obj.params.names[i].kind = "Defaulted"
                    => StructurallyEqual(h, fh, obj.params.names[i].def,
                                         fobj.params.names[i].def)

\* a freeze that succeeds returns a frozen value that reads the same as
\* the value it was given; a thaw makes a Mutable list of the frozen list's
\* elements in order
C16_StructureStep ==
    /\ hres'.op = "freeze" /\ hres'.out = "Ok"
          => StructurallyEqual(heap, fheap', hres'.arg, hres'.fv)
    /\ \A i \in 1..Len(heap) :
          heap[i].tag = "ThawOnWrite" /\ heap[i].thawed = None /\ heap'[i].thawed # None
              => LET copy == heap'[heap'[i].thawed[1].at] IN
                 /\ copy.tag = "Mutable"
                 /\ copy.obj.typ = "list"
                 /\ copy.obj.content = fheap[heap[i].fv.at].obj.content

\* C16: freezing preserves structure for acyclic graphs: a frozen list has
\* the same length and the same elements in the same order, a frozen struct
\* the same field names in the same insertion order with the frozen field
\* values, and thawing a frozen list gives a mutable list of the frozen
\* list's elements in order.
C16_Structure == [][C16_StructureStep]_hvars

\* a list of two different elements, one of them a mutable list, was frozen
C16_Witness ==
    /\ Froze
    /\ hres.was = "Mutable"
    /\ LET c == fheap[hres.fv.at].obj.content IN
       /\ Len(c) = 2
       /\ c[1] # c[2]
       /\ \E i \in 1..2 : c[i].ptr = "Ptr1" /\ c[i].at > 1

\* the cell v is a ThawOnWrite still backed by its frozen list
FrozenBacked(h, v) ==
    v.ptr = "Ptr2" /\ h[v.at].tag = "ThawOnWrite" /\ h[v.at].thawed = None

\* the cell v is a ThawOnWrite that has been thawed
Thawed(h, v) ==
    v.ptr = "Ptr2" /\ h[v.at].tag = "ThawOnWrite" /\ h[v.at].thawed # None

\* what a step does to ThawOnWrite cells and to the frozen heap
C17_ThawStep ==
    LET v == hres'.arg
        call == hres'.op = "get_ref_mut" /\ hres'.out = "Ok" IN
    \* the first successful get_ref_mut: a fresh Mutable copy of the frozen
    \* list, now the cell's content, and the borrow is a borrow of the copy
    /\ call /\ FrozenBacked(heap, v)
          => /\ Len(heap') = Len(heap) + 1
             /\ heap'[v.at].thawed = Some(Ptr2(Len(heap')))
             /\ heap'[Len(heap')].tag = "Mutable"
             /\ heap'[Len(heap')].obj = ListObj(fheap[heap[v.at].fv.at].obj.content)
             /\ heap'[Len(heap')].borrow = -1
             /\ hres'.cell = Len(heap')
    \* a later one: the same copy, and no new one
    /\ call /\ Thawed(heap, v)
          => /\ Len(heap') = Len(heap)
             /\ hres'.cell = heap[v.at].thawed[1].at
    \* a thawed cell keeps its copy
    /\ \A i \in 1..Len(heap) :
          Thawed(heap, Ptr2(i)) => heap'[i].thawed = heap[i].thawed
    \* a mutation through the borrow goes to the borrowed cell only
    /\ hres'.op = "push"
          => /\ heap'[hres'.cell].obj.content
                    = Append(heap[hres'.cell].obj.content, hres'.arg)
             /\ \A i \in 1..Len(heap) : i # hres'.cell => heap'[i] = heap[i]
    \* the entries of the frozen heap are never modified
    /\ SubSeq(fheap', 1, Len(fheap)) = fheap

C18_Read == fheap[1] = FrozenValueMem("Simple", ListObj(<<Value_new_int(1)>>))

\* get_ref_mut on a frozen value fails with CannotMutateImmutableValue and
\* changes nothing, get_aref on it returns a handle and changes nothing;
\* get_ref_mut on a list of this evaluation that is not borrowed succeeds
C18_FrozenStep ==
    /\ hres'.op = "get_ref_mut" /\ hres'.arg.ptr = "Ptr1"
          => /\ hres'.out = CannotMutateImmutableValue
             /\ heap' = heap
             /\ fheap' = fheap
    /\ hres'.op = "get_aref" /\ hres'.arg.ptr = "Ptr1"
          => hres'.out = "Ptr" /\ heap' = heap /\ fheap' = fheap
    /\ (hres'.op = "get_ref_mut" /\ hres'.was = "Mutable"
            /\ heap[hres'.arg.at].borrow = 0)
          => hres'.out = "Ok" /\ heap'[hres'.arg.at].borrow = -1

\* C18: a frozen list loaded from a frozen module cannot be mutated:
\* reading it works, every mutation attempt fails with
\* CannotMutateImmutableValue and leaves the list unchanged; a list freshly
\* built in the evaluation is mutable.
C18_FrozenImmutable == []C18_Read /\ [][C18_FrozenStep]_hvars

\* a mutation of the loaded list was refused, in an evaluation that has
\* built a list of its own and appended to it
C18_Witness ==
    /\ hres.op = "get_ref_mut"
    /\ hres.arg = Ptr1(1)
    /\ hres.out = CannotMutateImmutableValue
    /\ \E i \in 1..Len(heap) :
          heap[i].tag = "Mutable" /\ Len(heap[i].obj.content) = 1

\* the targets get_ref_mut refuses as immutable: an immediate, a frozen
\* value, a Str, Simple, Immutable or Forward entry of the mutable heap
ImmutableTargets ==
    {"Int", "None", "Ptr1", "Str", "Simple", "Immutable", "Forward"}

\* v is a Mutable cell, or a thawed ThawOnWrite, and the Mutable cell has a
\* borrow outstanding
MutableBorrowed(h, v) ==
    \/ v.ptr = "Ptr2" /\ h[v.at].tag = "Mutable" /\ h[v.at].borrow # 0
    \/ Thawed(h, v) /\ h[h[v.at].thawed[1].at].borrow # 0

\* v is a frozen-backed ThawOnWrite, and a guard obtained from it is
\* outstanding
FrozenBackedBorrowed(h, v) == FrozenBacked(h, v) /\ h[v.at].borrow # 0

\* a failed call changes nothing
FailedUnchanged ==
    hres'.op = "get_ref_mut" /\ hres'.out # "Ok" => heap' = heap /\ fheap' = fheap

\* the outcome as stated: every target that is neither immutable nor a
\* borrowed Mutable (or thawed ThawOnWrite) gives an exclusive borrow
C19_OriginalStep ==
    LET v == hres'.arg IN
    hres'.op = "get_ref_mut"
        => /\ hres'.was \in ImmutableTargets
                => hres'.out = CannotMutateImmutableValue
           /\ MutableBorrowed(heap, v) => hres'.out = MutationDuringIteration
           /\ hres'.was \notin ImmutableTargets /\ ~MutableBorrowed(heap, v)
                => hres'.out = "Ok" /\ heap'[hres'.cell].borrow = -1
           /\ FailedUnchanged

C19_Original == [][C19_OriginalStep]_hvars

\* the outcome by target, a borrowed frozen-backed ThawOnWrite included
C19_OutcomeStep ==
    LET v == hres'.arg
        busy == MutableBorrowed(heap, v) \/ FrozenBackedBorrowed(heap, v) IN
    hres'.op = "get_ref_mut"
        => /\ hres'.was \in ImmutableTargets
                => hres'.out = CannotMutateImmutableValue
           /\ busy => hres'.out = MutationDuringIteration
           /\ hres'.was \notin ImmutableTargets /\ ~busy
                => hres'.out = "Ok" /\ heap'[hres'.cell].borrow = -1
           /\ FailedUnchanged

\* C19: get_ref_mut by target: CannotMutateImmutableValue for an immediate,
\* a frozen value, or a Str, Simple, Immutable or Forward entry;
\* MutationDuringIteration for a Mutable cell or a ThawOnWrite cell (thawed
\* or still frozen-backed) with a borrow outstanding; otherwise an
\* exclusive borrow.  A failed call changes nothing.
C19_Outcome == [][C19_OutcomeStep]_hvars

\* a frozen-backed ThawOnWrite was being read when its mutation was refused
C19_Witness ==
    /\ hres.op = "get_ref_mut"
    /\ hres.out = MutationDuringIteration
    /\ FrozenBackedBorrowed(heap, hres.arg)

\* C20: get_aref returns a handle (a raw pointer or a guard) for every
\* assigned value, also when the Mutable cell it points at has an exclusive
\* borrow outstanding: it never fails and never panics.
C20_AlwaysReturns ==
    hres.op = "get_aref" /\ hres.arg.ptr # "Unassigned"
        => hres.out \in {"Ptr", "Ref"} /\ hpc # "panicked"

(***************************************************************************)
(* A ParametersSpec in which one parameter is added after kwargs():        *)
(* new, required() zero or more times, kwargs(), then required(),          *)
(* optional() or defaulted(); then one collector over it.                  *)
(***************************************************************************)
RECURSIVE RequiredFirst(_)
\* new, then required(NamePool[1]) .. required(NamePool[n])
RequiredFirst(n) ==
    IF n = 0 THEN ParametersSpec_new
    ELSE required(RequiredFirst(n - 1), NamePool[n])

\* ... then kwargs(), then one more parameter of the given kind
AddedAfterKWargs(n, kind) ==
    add(ParametersSpec_kwargs(RequiredFirst(n), KWargsName), NamePool[n + 1], kind,
        IF kind = "Defaulted" THEN DefaultVal(n + 1) ELSE Unassigned)

LInit ==
    /\ \E n \in 0..(MaxParams - 1), kind \in {"Required", "Optional", "Defaulted"} :
          /\ params = AddedAfterKWargs(n, kind)
          /\ col = collect(params, 0)
    /\ pc = "collect"
    /\ result = NoResult
    /\ nextVal = 1
    /\ calls = <<>>
    /\ marker = None
    /\ MIdle
    /\ EIdle
    /\ HIdle
    /\ XIdle

LNext ==
    \/ CallPositional
    \/ CallNamed
    \/ CallArgs
    \/ CallKWargs
    \/ Done

SpecParamsLate == LInit /\ [][LNext]_vars

\* the slots of the parameters added after kwargs()
Late == {i \in 1..Len(params.names) : params.kwargs # None /\ i > params.kwargs[1] + 1}

\* C28: a parameter added with required / optional / defaulted after
\* kwargs() can only be supplied by position, not by name: whatever its
\* slot holds was delivered by position.
C28_PositionOnly ==
    \A i \in Late :
        ~is_unassigned(col.slots[i]) =>
            \E k \in 1..Len(PosVals(calls)) : PosVals(calls)[k] = col.slots[i]

\* positional() with the already-bound check always performed
positional_checked(p, c, val) ==
    IF c.next_position < p.positional
    THEN IF is_unassigned(c.slots[c.next_position + 1])
         THEN [c EXCEPT !.slots[c.next_position + 1] = val,
                        !.next_position = @ + 1]
         ELSE set_err(c, RepeatedParameter(p.names[c.next_position + 1].name))
    ELSE [c EXCEPT !.args = Append(@, val)]

RECURSIVE positional_each_checked(_, _, _)
positional_each_checked(p, c, xs) ==
    IF xs = <<>> THEN c
    ELSE positional_each_checked(p, positional_checked(p, c, xs[1]), Tail(xs))

\* while only_positional is true, no slot at or after next_position is bound
C30_Unassigned ==
    pc \in {"collect", "done"} /\ col.only_positional
        => \A i \in 1..Len(col.slots) :
              i > col.next_position => is_unassigned(col.slots[i])

\* a call that delivers by position (positional, or args over an iterable)
\* leaves the collector as the always-checking positional would
C30_SameStep ==
    LET ds == SubSeq(calls', Len(calls) + 1, Len(calls')) IN
    (pc = "collect" /\ Len(calls') > Len(calls) /\ \A i \in 1..Len(ds) : IsPos(ds[i]))
        => col' = positional_each_checked(params, col, PosVals(ds))

\* C30: fast-path soundness: whenever only_positional is true every slot
\* at index >= next_position is unassigned, and a collector that always
\* performs the already-bound check ends in the same slots and error.
C30_FastPath == []C30_Unassigned /\ [][C30_SameStep]_pvars

\* the fast path was taken: all arguments so far came by position, one is
\* bound, and a later slot is still to fill
C30_Witness ==
    /\ pc = "collect"
    /\ col.only_positional
    /\ col.next_position >= 1
    /\ col.next_position < params.positional
    /\ PosVals(calls) # <<>>

\* the cells that the object of cell i points at
Edges(h, i) ==
    IF h[i].tag \in {"Mutable", "Immutable"}
    THEN {v.at : v \in {w \in Held(h[i].obj) : w.ptr = "Ptr2"}}
    ELSE {}

RECURSIVE Closure(_, _)
\* the cells reachable from the cells of S, S included
Closure(h, S) ==
    LET N == S \cup UNION {Edges(h, i) : i \in S} IN
    IF N = S THEN S ELSE Closure(h, N)

\* from v a value can be reached that reaches itself
HasCycle(h, v) ==
    /\ v.ptr = "Ptr2"
    /\ \E i \in Closure(h, {v.at}) : i \in Closure(h, Edges(h, i))

\* a freeze ends, with CyclicFreeze exactly when a value reachable from the
\* root reaches itself
C29_CycleStep ==
    hres'.op = "freeze"
        => /\ hres'.out \in {"Ok", "CyclicFreeze"}
           /\ hres'.out = "CyclicFreeze" <=> HasCycle(heap, hres'.arg)
           /\ hres'.out = "CyclicFreeze"
                => \E i \in 1..Len(heap') : heap'[i].tag = "Blackhole"

C29_SharedWitness ==
    /\ Froze
    /\ hres.was = "Mutable"
    /\ LET c == fheap[hres.fv.at].obj.content IN
       Len(c) = 2 /\ c[1] = c[2] /\ c[1].ptr = "Ptr1" /\ c[1].at > hres.fv.at

(***************************************************************************)
(* ValueRef: a variable slot (values/layout/value.rs).  A slot is a cell   *)
(* holding one Value.  The stored Value either is the variable's value, or *)
(* carries the user tag and points at a heap ValueMem::Ref cell that holds *)
(* the variable's value, which is how two slots share one variable.        *)
(*   vrefs   the ValueRef objects: val is the stored Value with its user   *)
(*           tag, origin (history) is the slot this one was cloned from,   *)
(*           transitively, or itself                                       *)
(*   cells   the heap: Ref cells and ordinary objects                      *)
(*   rres    the last operation, its slot, its argument, what it returned  *)
(***************************************************************************)
MaxRefs == 3

MaxRefCells == 3

MaxInts == 2

\* Pointer::set_user_tag / get_user_tag: one bit of the pointer word
Tagged(v, user) == [ptr |-> v.ptr, at |-> v.at, user |-> user]

set_user_tag(v) == Tagged(v, TRUE)

get_user_tag(v) == v.user

Untagged(v) == Tagged(v, FALSE)

\* ValueMem::Ref(Cell<Value>) and any other heap object
RefMem(v) == [tag |-> "Ref", cell |-> v]

ObjMem == [tag |-> "Mutable", cell |-> Untagged(Value_new_none)]

\* Heap::alloc_raw: the object goes at the end of the arena
alloc_raw(hp, mem) == Append(hp, mem)

Loc(kind, at) == [kind |-> kind, at |-> at]

\* ValueRef::get_cell
ValueRef_get_cell(st, r) ==
    LET v == st.vrefs[r].val IN
    IF get_user_tag(v)
    THEN IF v.ptr = "Ptr2" /\ v.at \in 1..Len(st.cells) /\ st.cells[v.at].tag = "Ref"
         THEN Loc("ref", v.at)
         ELSE Loc("unreachable", 0)
    ELSE Loc("own", r)

Cell_get(st, loc) ==
    IF loc.kind = "ref" THEN st.cells[loc.at].cell ELSE st.vrefs[loc.at].val

Cell_set(st, loc, v) ==
    IF loc.kind = "ref"
    THEN [st EXCEPT !.cells[loc.at].cell = v]
    ELSE [st EXCEPT !.vrefs[loc.at].val = v]

RState(st, out, ret) == [st |-> st, out |-> out, ret |-> ret]

\* ValueRef::new_unassigned
ValueRef_new_unassigned(st) ==
    [st EXCEPT !.vrefs = Append(@, [val |-> Untagged(Value_new_unassigned),
                                     origin |-> Len(st.vrefs) + 1])]

\* mutant: set without its assertion
ValueRef_set_unchecked(st, r, value) ==
    LET loc == ValueRef_get_cell(st, r) IN
    IF loc.kind = "unreachable"
    THEN RState(st, "panic", None)
    ELSE RState(Cell_set(st, loc, value), "ok", None)

\* ValueRef::set
ValueRef_set(st, r, value) ==
    LET loc == ValueRef_get_cell(st, r) IN
    IF value.ptr = "Unassigned" \/ loc.kind = "unreachable"
    THEN RState(st, "panic", None)
    ELSE RState(Cell_set(st, loc, value), "ok", None)

\* ValueRef::get
ValueRef_get(st, r) ==
    LET loc == ValueRef_get_cell(st, r) IN
    IF loc.kind = "unreachable" THEN RState(st, "panic", None)
    ELSE LET v == Cell_get(st, loc) IN
         IF v.ptr = "Unassigned" THEN RState(st, "ok", None) ELSE RState(st, "ok", Some(v))

\* ValueRef::is_unassigned
ValueRef_is_unassigned(st, r) == ValueRef_get(st, r).ret = None

\* the new slot of clone_reference shares the variable of slot r
NewRef(st, r, v) == Append(st.vrefs, [val |-> v, origin |-> st.vrefs[r].origin])

ValueRef_clone_reference_always_alloc(st, r) ==
    LET v == st.vrefs[r].val
        reffed == set_user_tag(Ptr2(Len(st.cells) + 1))
        st1 == [st EXCEPT !.cells = alloc_raw(@, RefMem(v)), !.vrefs[r].val = reffed]
    IN  RState([st1 EXCEPT !.vrefs = NewRef(st1, r, reffed)], "ok", None)

ValueRef_clone_reference_no_store(st, r) ==
    LET v == st.vrefs[r].val IN
    IF get_user_tag(v)
    THEN IF ValueRef_get_cell(st, r).kind = "ref"
         THEN RState([st EXCEPT !.vrefs = NewRef(st, r, v)], "ok", None)
         ELSE RState(st, "panic", None)
    ELSE LET reffed == set_user_tag(Ptr2(Len(st.cells) + 1))
             st1 == [st EXCEPT !.cells = alloc_raw(@, RefMem(v))]
         IN  RState([st1 EXCEPT !.vrefs = NewRef(st1, r, reffed)], "ok", None)

\* ValueRef::clone_reference
ValueRef_clone_reference(st, r) ==
    LET v == st.vrefs[r].val IN
    IF get_user_tag(v)
    THEN IF v.ptr = "Ptr2" /\ v.at \in 1..Len(st.cells) /\ st.cells[v.at].tag = "Ref"
         THEN RState([st EXCEPT !.vrefs = NewRef(st, r, v)], "ok", None)
         ELSE RState(st, "panic", None)
    ELSE LET reffed == set_user_tag(Ptr2(Len(st.cells) + 1))
             st1 == [st EXCEPT !.cells = alloc_raw(@, RefMem(v)), !.vrefs[r].val = reffed]
         IN  RState([st1 EXCEPT !.vrefs = NewRef(st1, r, reffed)], "ok", None)

ROp(op, at, arg, out, ret) == [op |-> op, at |-> at, arg |-> arg, out |-> out, ret |-> ret]

RNow == [vrefs |-> vrefs, cells |-> cells]

\* the values a caller can hold: integers, pointers to objects it has
\* allocated, and whatever a get on some slot returns
Gettable ==
    {ValueRef_get(RNow, r).ret[1] :
        r \in {q \in 1..Len(vrefs) : ValueRef_get(RNow, q).ret # None}}

Settable ==
    {Untagged(Value_new_int(n)) : n \in 1..MaxInts}
        \cup {Untagged(Ptr2(i)) : i \in {j \in 1..Len(cells) : cells[j].tag = "Mutable"}}
        \cup Gettable

RInit ==
    /\ vrefs = <<>>
    /\ cells = <<>>
    /\ rres = ROp("new", 0, None, "ok", None)
    /\ PIdle
    /\ MIdle
    /\ EIdle
    /\ HIdle
    /\ SIdle
    /\ GIdle
    /\ TIdle

RRest == UNCHANGED <<pvars, mvars, evars, hvars, svars, gvars, tvars>>

RApply(r, op, at, arg) ==
    /\ vrefs' = r.st.vrefs
    /\ cells' = r.st.cells
    /\ rres' = ROp(op, at, arg, r.out, r.ret)
    /\ RRest

NewUnassigned ==
    /\ Len(vrefs) < MaxRefs
    /\ RApply(RState(ValueRef_new_unassigned(RNow), "ok", None), "new_unassigned", Len(vrefs) + 1, None)

AllocObject ==
    /\ Len(cells) < MaxRefCells
    /\ \A i \in 1..Len(cells) : cells[i].tag # "Mutable"
    /\ RApply(RState([RNow EXCEPT !.cells = alloc_raw(@, ObjMem)], "ok", None), "alloc", Len(cells) + 1, None)

SetRef ==
    \E r \in 1..Len(vrefs), v \in Settable \cup {Untagged(Value_new_unassigned)} :
        RApply(ValueRef_set(RNow, r, v), "set", r, Some(v))

GetRef ==
    \E r \in 1..Len(vrefs) :
        RApply(ValueRef_get(RNow, r), "get", r, None)

CloneReference ==
    \E r \in 1..Len(vrefs) :
        /\ Len(vrefs) < MaxRefs
        /\ Len(cells) < MaxRefCells
        /\ RApply(ValueRef_clone_reference(RNow, r), "clone_reference", r, None)

RNext ==
    \/ NewUnassigned
    \/ AllocObject
    \/ SetRef
    \/ GetRef
    \/ CloneReference

SpecValueRef == RInit /\ [][RNext]_vars

\* what get on slot r returns in state st
Reads(st, r) == ValueRef_get(st, r).ret

PointsAtRef(v) == v.ptr = "Ptr2" /\ v.at \in 1..Len(cells) /\ cells[v.at].tag = "Ref"

\* C21 (state part): a slot's stored value carries the user tag exactly when
\* it points at a Ref cell, and the value inside a Ref cell neither carries
\* the tag nor points at a Ref cell; no operation panics, bar the assertion
\* of a set that is handed the Unassigned pattern
C21_Tagged ==
    /\ \A r \in 1..Len(vrefs) : get_user_tag(vrefs[r].val) <=> PointsAtRef(vrefs[r].val)
    /\ \A i \in 1..Len(cells) :
           cells[i].tag = "Ref" => ~get_user_tag(cells[i].cell) /\ ~PointsAtRef(cells[i].cell)
    /\ rres.out = "ok" \/ (rres.op = "set" /\ rres.arg = Some(Untagged(Value_new_unassigned)))

\* C21 (step part): clone_reference on a slot that is already a reference
\* allocates nothing, and on a plain slot allocates exactly one Ref cell
C21_CloneStep ==
    rres'.op = "clone_reference" /\ <<vrefs, cells>> # <<vrefs', cells'>> =>
        IF get_user_tag(vrefs[rres'.at].val)
        THEN cells' = cells
        ELSE Len(cells') = Len(cells) + 1

\* C21: Ref cells never nest and are always tagged: after any sequence of
\* set, get and clone_reference a slot is tagged exactly when it points at
\* a Ref cell, a Ref cell never holds a pointer to a Ref cell, and
\* clone_reference on a slot that is already a reference allocates no cell.
C21_RefCells == []C21_Tagged /\ [][C21_CloneStep]_rvars

\* a reference was cloned again and the variable was then written
C21_Witness ==
    /\ rres.op = "set"
    /\ Len(vrefs) = 3
    /\ \A r \in 1..3 : get_user_tag(vrefs[r].val) /\ vrefs[r].val.at = vrefs[1].val.at
    /\ Cardinality({i \in 1..Len(cells) : cells[i].tag = "Ref"}) = 1
    /\ Reads(RNow, 3) # None
    /\ Reads(RNow, 3)[1].ptr = "Ptr2"

\* C22 (state part): slots made from one another by clone_reference read
\* the same value, whoever wrote it last
C22_SameRead ==
    \A r1, r2 \in 1..Len(vrefs) :
        vrefs[r1].origin = vrefs[r2].origin => Reads(RNow, r1) = Reads(RNow, r2)

\* C22 (step part): right after r2 = r1.clone_reference() both slots read
\* what r1 read before, unassigned included; a set through one slot is
\* what every slot of its family reads next
C22_Step ==
    /\ rres'.op = "clone_reference" /\ Len(vrefs') = Len(vrefs) + 1 =>
           /\ Reads(RNow', rres'.at) = Reads(RNow, rres'.at)
           /\ Reads(RNow', Len(vrefs')) = Reads(RNow, rres'.at)
    /\ rres'.op = "set" /\ rres'.out = "ok" /\ Len(vrefs') = Len(vrefs) =>
           \A r \in 1..Len(vrefs) :
               /\ vrefs[r].origin = vrefs[rres'.at].origin => Reads(RNow', r) = rres'.arg
               /\ vrefs[r].origin # vrefs[rres'.at].origin => Reads(RNow', r) = Reads(RNow, r)

\* C22: clone_reference shares the variable: r1 and its clones read the
\* same value in every later state, a set through any of them is seen by
\* the others, and the value r1 held before the clone is what both read
\* immediately afterwards.
C22_Shared == []C22_SameRead /\ [][C22_Step]_rvars

\* the variable was written through the clone and is read through the
\* original, with a second, unrelated variable holding something else
C22_Witness ==
    /\ rres.op = "set"
    /\ rres.at = 3
    /\ Len(vrefs) = 3
    /\ vrefs[3].origin = 1
    /\ vrefs[2].origin = 2
    /\ Reads(RNow, 1) = Some(Untagged(Value_new_int(2)))
    /\ Reads(RNow, 2) = Some(Untagged(Value_new_int(1)))

(***************************************************************************)
(* Scope: the name resolver of the compiler (eval/scope.rs).  It keeps one *)
(* ScopeNames per open function body, the module's private scope first,    *)
(* and one Unscope per open comprehension.                                 *)
(*   locals    the stack of ScopeNames: used is the number of slots given  *)
(*             out, mp maps a name to its slot, parent lists the slots     *)
(*             captured from the enclosing scope as <<there, here>>        *)
(*   unscopes  the stack of undo lists of the open comprehensions          *)
(*   module    the module's public names (MutableNames)                    *)
(*   nest      history: the open defs and comprehensions, innermost last,  *)
(*             each comprehension with the bindings of its scope when it   *)
(*             was entered and the names given to add_compr since          *)
(*   sres      the last operation, its arguments and what it returned      *)
(***************************************************************************)
MaxDepth == 2

MaxCompr == 2

MaxSlots == 2

MaxDefNames == 2

Names == {"x", "y"}

\* Slot::Module / Slot::Local
Module(i) == [kind |-> "Module", at |-> i]

Local(i) == [kind |-> "Local", at |-> i]

NoNames == [n \in Names |-> None]

\* ScopeNames::default
ScopeNames_default == [used |-> 0, mp |-> NoNames, parent |-> <<>>]

\* ScopeNames::get_name
ScopeNames_get_name(sn, name) == sn.mp[name]

\* ScopeNames::next_slot and ScopeNames::add_name
add_name(sn, name) ==
    IF sn.mp[name] # None
    THEN [sn |-> sn, slot |-> sn.mp[name][1], ok |-> TRUE]
    ELSE [sn |-> [sn EXCEPT !.used = @ + 1, !.mp[name] = Some(sn.used)],
          slot |-> sn.used, ok |-> TRUE]

copy_parent_same_slot(sn, parent, name) ==
    LET r == add_name(sn, name) IN
    [sn |-> [r.sn EXCEPT !.parent = Append(@, <<parent, parent>>)],
     slot |-> r.slot, ok |-> sn.mp[name] = None]

\* ScopeNames::copy_parent
copy_parent(sn, parent, name) ==
    LET r == add_name(sn, name) IN
    [sn |-> [r.sn EXCEPT !.parent = Append(@, <<parent, r.slot>>)],
     slot |-> r.slot, ok |-> sn.mp[name] = None]

\* mutant: the comprehension variable is bound to the next slot without
\* taking it
add_scoped_no_slot(sn, name, unscope) ==
    [sn |-> [sn EXCEPT !.mp[name] = Some(sn.used)],
     unscope |-> Append(unscope, [name |-> name, undo |-> sn.mp[name]]),
     slot |-> sn.used]

\* ScopeNames::add_scoped
add_scoped(sn, name, unscope) ==
    [sn |-> [sn EXCEPT !.used = @ + 1, !.mp[name] = Some(sn.used)],
     unscope |-> Append(unscope, [name |-> name, undo |-> sn.mp[name]]),
     slot |-> sn.used]

RECURSIVE unscope_forwards(_, _)
unscope_forwards(sn, unscope_) ==
    IF unscope_ = <<>> THEN sn
    ELSE LET e == Head(unscope_) IN
         unscope_forwards([sn EXCEPT !.mp[e.name] = e.undo], Tail(unscope_))

\* ScopeNames::unscope: the undo list is replayed backwards
RECURSIVE unscope(_, _)
unscope(sn, unscope_) ==
    IF unscope_ = <<>> THEN sn
    ELSE LET e == unscope_[Len(unscope_)] IN
         unscope([sn EXCEPT !.mp[e.name] = e.undo], SubSeq(unscope_, 1, Len(unscope_) - 1))

RECURSIVE add_names(_, _)
add_names(sn, names) ==
    IF names = <<>> THEN sn
    ELSE add_names(add_name(sn, Head(names)).sn, Tail(names))

\* Scope::enter_module: public names go to the module, private ones to
\* the first ScopeNames
Scope_enter_module(public, private) ==
    [locals |-> <<add_names(ScopeNames_default, private)>>,
     unscopes |-> <<>>,
     module |-> add_names(ScopeNames_default, public).mp]

Scope_enter_def_body_first(st, params_, body) ==
    [st EXCEPT !.locals = Append(@, add_names(add_names(ScopeNames_default, body), params_))]

\* Scope::enter_def: the parameters in order, then the names the body
\* defines in the order the HashMap yields them
Scope_enter_def(st, params_, body) ==
    [st EXCEPT !.locals = Append(@, add_names(add_names(ScopeNames_default, params_), body))]

\* Scope::exit_def
Scope_exit_def(st) ==
    [st EXCEPT !.locals = SubSeq(@, 1, Len(@) - 1)]

\* Scope::enter_compr
Scope_enter_compr(st) ==
    [st EXCEPT !.unscopes = Append(@, <<>>)]

\* Scope::add_compr: the names of the target in the order the HashMap
\* yields them
RECURSIVE Scope_add_compr(_, _)
Scope_add_compr(st, names) ==
    IF names = <<>> THEN st
    ELSE LET d == Len(st.locals)
             u == Len(st.unscopes)
             r == add_scoped(st.locals[d], Head(names), st.unscopes[u])
         IN  Scope_add_compr([st EXCEPT !.locals[d] = r.sn, !.unscopes[u] = r.unscope],
                             Tail(names))

\* Scope::exit_compr
Scope_exit_compr(st) ==
    LET d == Len(st.locals)
        u == Len(st.unscopes)
    IN  [st EXCEPT !.locals[d] = unscope(st.locals[d], st.unscopes[u]),
                   !.unscopes = SubSeq(@, 1, u - 1)]

\* the loop of Scope::get_name that copies the name into the scopes j..d
RECURSIVE copy_down(_, _, _, _)
copy_down(st, j, v, name) ==
    IF j > Len(st.locals) THEN [st |-> st, ret |-> Some(Local(v)), ok |-> TRUE]
    ELSE LET r == copy_parent(st.locals[j], v, name) IN
         IF ~r.ok THEN [st |-> st, ret |-> None, ok |-> FALSE]
         ELSE copy_down([st EXCEPT !.locals[j] = r.sn], j + 1, r.slot, name)

Binders(st, name) == {i \in 1..Len(st.locals) : ScopeNames_get_name(st.locals[i], name) # None}

\* mutant: the search stops at the outermost scope that binds the name
Outermost(S) == CHOOSE i \in S : \A k \in S : i <= k

Innermost(S) == CHOOSE i \in S : \A k \in S : k <= i

\* Scope::get_name
Scope_get_name(st, name) ==
    IF Binders(st, name) # {}
    THEN LET i == Innermost(Binders(st, name))
         IN  copy_down(st, i + 1, st.locals[i].mp[name][1], name)
    ELSE IF st.module[name] # None
         THEN [st |-> st, ret |-> Some(Module(st.module[name][1])), ok |-> TRUE]
         ELSE [st |-> st, ret |-> None, ok |-> TRUE]

SNow == [locals |-> locals, unscopes |-> unscopes, module |-> module]

SOp(op, args_, body, ret, ok) ==
    [op |-> op, args |-> args_, body |-> body, ret |-> ret, ok |-> ok]

DefFrame == [kind |-> "def", depth |-> 0, base |-> 0, snap |-> NoNames,
             first |-> NoNames, added |-> {}]

ComprFrame(sn, depth) ==
    [kind |-> "compr", depth |-> depth, base |-> sn.used, snap |-> sn.mp,
     first |-> NoNames, added |-> {}]

\* sequences of distinct names, at most k long
DistinctSeqs(k) ==
    {s \in UNION {[1..n -> Names] : n \in 0..k} :
        \A i, j \in 1..Len(s) : i # j => s[i] # s[j]}

SInit ==
    /\ \E public \in SUBSET {"x"}, private \in SUBSET {"y"} :
           LET st == Scope_enter_module(IF public = {} THEN <<>> ELSE <<"x">>,
                                        IF private = {} THEN <<>> ELSE <<"y">>)
           IN  /\ locals = st.locals
               /\ unscopes = st.unscopes
               /\ module = st.module
    /\ nest = <<>>
    /\ sres = SOp("enter_module", <<>>, <<>>, None, TRUE)
    /\ PIdle
    /\ MIdle
    /\ EIdle
    /\ HIdle
    /\ RIdle
    /\ GIdle
    /\ TIdle

SRest == UNCHANGED <<pvars, mvars, evars, hvars, rvars, gvars, tvars>>

SApply(st) ==
    /\ locals' = st.locals
    /\ unscopes' = st.unscopes
    /\ module' = st.module
    /\ SRest

Top == nest[Len(nest)]

InCompr == nest # <<>> /\ Top.kind = "compr"

InDef == nest # <<>> /\ Top.kind = "def"

Pop(s) == SubSeq(s, 1, Len(s) - 1)

NamesOf(s) == {s[i] : i \in 1..Len(s)}

EnterDef ==
    \E ps \in DistinctSeqs(MaxDefNames), body \in DistinctSeqs(MaxDefNames) :
        /\ Len(locals) <= MaxDepth
        /\ SApply(Scope_enter_def(SNow, ps, body))
        /\ nest' = Append(nest, DefFrame)
        /\ sres' = SOp("enter_def", ps, body, None, TRUE)

ExitDef ==
    /\ InDef
    /\ SApply(Scope_exit_def(SNow))
    /\ nest' = Pop(nest)
    /\ sres' = SOp("exit_def", <<>>, <<>>, None, TRUE)

EnterCompr ==
    /\ Len(unscopes) < MaxCompr
    /\ SApply(Scope_enter_compr(SNow))
    /\ nest' = Append(nest, ComprFrame(locals[Len(locals)], Len(locals)))
    /\ sres' = SOp("enter_compr", <<>>, <<>>, None, TRUE)

AddCompr ==
    \E ns \in DistinctSeqs(MaxDefNames) :
        /\ InCompr
        /\ ns # <<>>
        /\ locals[Len(locals)].used + Len(ns) <= MaxSlots
        /\ SApply(Scope_add_compr(SNow, ns))
        /\ nest' = [nest EXCEPT ![Len(nest)] =
               [@ EXCEPT !.first = [n \in Names |->
                                       IF n \in NamesOf(ns) /\ n \notin Top.added
                                       THEN locals[Len(locals)].mp[n]
                                       ELSE Top.first[n]],
                         !.added = @ \cup NamesOf(ns)]]
        /\ sres' = SOp("add_compr", ns, <<>>, None, TRUE)

ExitCompr ==
    /\ InCompr
    /\ SApply(Scope_exit_compr(SNow))
    /\ nest' = Pop(nest)
    /\ sres' = SOp("exit_compr", [i \in 1..Len(unscopes[Len(unscopes)]) |->
                                      unscopes[Len(unscopes)][i].name],
                   <<>>, None, TRUE)

GetName ==
    \E name \in Names :
        LET r == Scope_get_name(SNow, name) IN
        /\ \A j \in 1..Len(r.st.locals) : r.st.locals[j].used <= MaxSlots
        /\ SApply(r.st)
        /\ nest' = nest
        /\ sres' = SOp("get_name", <<name>>, <<>>, r.ret, r.ok)

SNext ==
    \/ EnterDef
    \/ ExitDef
    \/ EnterCompr
    \/ AddCompr
    \/ ExitCompr
    \/ GetName

SpecScope == SInit /\ [][SNext]_vars

IndexIn(s, n) == CHOOSE i \in 1..Len(s) : s[i] = n

\* the slot a name has in the innermost open scope, None when that scope
\* does not bind it
Bound(ls, n) == ls[Len(ls)].mp[n]

\* C23 (as stated): right after enter_def every parameter pi resolves to
\* Local(i), and every name the body defines has a slot >= n
C23_OriginalStep ==
    sres'.op = "enter_def" =>
        LET ps == sres'.args
            n == Len(ps)
        IN  /\ \A i \in 1..n : Scope_get_name(SNow', ps[i]).ret = Some(Local(i - 1))
            /\ \A k \in 1..Len(sres'.body) :
                   /\ Bound(locals', sres'.body[k]) # None
                   /\ Bound(locals', sres'.body[k])[1] >= n

\* C23 as stated: every name the body defines receives a slot >= n
C23_Original == [][C23_OriginalStep]_svars

\* C23 (amended): right after enter_def every parameter pi resolves to
\* Local(i) whatever the body defines; a name the body defines that is not
\* a parameter has a slot of its own in n..used-1, and a name the body
\* defines that is also a parameter keeps the parameter's slot, below n
C23_ParamStep ==
    sres'.op = "enter_def" =>
        LET ps == sres'.args
            body == sres'.body
            n == Len(ps)
            top == locals'[Len(locals')]
        IN  /\ \A i \in 1..n : Scope_get_name(SNow', ps[i]).ret = Some(Local(i - 1))
            /\ \A k \in 1..Len(body) :
                   /\ top.mp[body[k]] # None
                   /\ body[k] \in NamesOf(ps) => top.mp[body[k]][1] = IndexIn(ps, body[k]) - 1
                   /\ body[k] \notin NamesOf(ps) =>
                          /\ top.mp[body[k]][1] >= n
                          /\ top.mp[body[k]][1] < top.used
                          /\ \A q \in 1..Len(body) : q # k => top.mp[body[q]] # top.mp[body[k]]
            /\ top.used = Cardinality(NamesOf(ps) \cup NamesOf(body))
            /\ top.parent = <<>>
            /\ SubSeq(locals', 1, Len(locals)) = locals

\* C23: parameter slots: immediately after enter_def with distinct
\* parameter names p0..p(n-1), get_name(pi) returns Local(i) for every i,
\* whatever names the body defines; the body's defines that are not
\* parameters receive slots >= n.
C23_ParamSlots == [][C23_ParamStep]_svars

\* a def with two parameters whose body defines the second one again
C23_Witness ==
    /\ sres.op = "enter_def"
    /\ Len(sres.args) = 2
    /\ sres.body = <<sres.args[2]>>
    /\ Bound(locals, sres.args[2]) = Some(1)

\* a def with one parameter whose body defines another name
C23_FreshWitness ==
    /\ sres.op = "enter_def"
    /\ Len(sres.args) = 1
    /\ Len(sres.body) = 2
    /\ \E k \in 1..2 : Bound(locals, sres.body[k]) = Some(1)

\* C24 (step part): a get_name of a name that some open scope binds
C24_CaptureStep ==
    sres'.op = "get_name" /\ Binders(SNow, sres'.args[1]) # {} =>
        LET x == sres'.args[1]
            i == Innermost(Binders(SNow, x))
            d == Len(locals)
        IN  /\ sres'.ok
            /\ Len(locals') = d
            /\ sres'.ret = Some(Local(locals'[d].mp[x][1]))
            /\ \A j \in 1..i : locals'[j] = locals[j]
            /\ \A j \in (i + 1)..d :
                   /\ locals[j].mp[x] = None
                   /\ locals'[j].mp = [locals[j].mp EXCEPT ![x] = Some(locals[j].used)]
                   /\ locals'[j].used = locals[j].used + 1
                   /\ locals'[j].parent =
                          Append(locals[j].parent, <<locals'[j - 1].mp[x][1], locals'[j].mp[x][1]>>)
            /\ unscopes' = unscopes
            /\ module' = module

C25_Inside ==
    \A k \in 1..Len(nest) :
        nest[k].kind = "compr" =>
            \A n \in nest[k].added :
                /\ locals[nest[k].depth].mp[n] # None
                /\ locals[nest[k].depth].mp[n][1] >= nest[k].base
                /\ nest[k].depth = Len(locals) =>
                       Scope_get_name(SNow, n).ret = Some(Local(Bound(locals, n)[1]))

\* C25 (as stated): after exit_compr every name given to add_compr is
\* bound as it was before enter_compr
C25_OriginalStep ==
    sres'.op = "exit_compr" =>
        \A n \in Top.added : Bound(locals', n) = Top.snap[n]

\* C25 as stated: exit_compr puts every name of the comprehension back to
\* its binding at enter_compr
C25_Original == [][C25_OriginalStep]_svars

\* the name was unbound in the scope at enter_compr and a get_name between
\* enter_compr and its first add_compr copied it from an enclosing scope
Captured(f, n) == f.snap[n] = None /\ f.first[n] # None

\* C25 (amended, step part): after exit_compr every name given to
\* add_compr is bound as it was just before its first add_compr in this
\* comprehension: as before enter_compr, except that a name captured from
\* an enclosing scope in between is bound to the captured slot
C25_ExitStep ==
    sres'.op = "exit_compr" =>
        /\ \A n \in Top.added :
               /\ Bound(locals', n) = Top.first[n]
               /\ ~Captured(Top, n) => Bound(locals', n) = Top.snap[n]
               /\ Captured(Top, n) =>
                      \E e \in 1..Len(locals[Len(locals)].parent) :
                          locals[Len(locals)].parent[e][2] = Top.first[n][1]
        /\ \A n \in Names \ Top.added : Bound(locals', n) = Bound(locals, n)
        /\ locals'[Len(locals)].used = locals[Len(locals)].used

\* C25: comprehension scoping: between enter_compr and the matching
\* exit_compr each name given to add_compr resolves to a fresh slot of the
\* current scope; after exit_compr it resolves as it did before its first
\* add_compr, also for nested comprehensions and for a name added twice.
C25_Comprehension == []C25_Inside /\ [][C25_ExitStep]_svars

\* a comprehension that bound the same name twice was closed, and the
\* name, unbound in the scope before, is unbound again
C25_Witness ==
    /\ sres.op = "exit_compr"
    /\ Len(sres.args) = 2
    /\ sres.args[1] = sres.args[2]
    /\ Bound(locals, sres.args[1]) = None

\* the inner of two nested comprehensions was closed and the name both
\* had bound is back at the slot the outer one gave it
C25_NestedWitness ==
    /\ sres.op = "exit_compr"
    /\ InCompr
    /\ Top.depth = Len(locals)
    /\ \E n \in Top.added :
           /\ sres.args = <<n>>
           /\ Bound(locals, n) = Some(Top.base)
           /\ locals[Len(locals)].used = Top.base + 2

(***************************************************************************)
(* GlobalsBuilder and GlobalsStatic (environment/globals.rs).              *)
(*   builder  one GlobalsBuilder: the frozen heap it allocates in, the     *)
(*            top-level variables, and struct_fields, which is Some(map)   *)
(*            while struct_ runs its closure                               *)
(*   gres     the last builder operation, its arguments and its outcome    *)
(* A closure given to struct_ or to GlobalsStatic is a program: a sequence *)
(* of the calls it makes on the builder it is handed.                      *)
(***************************************************************************)
MaxStructs == 2

MaxProgram == 2

GNames == {"a", "b", "s"}

GOp(op, name, val, f) == [op |-> op, name |-> name, val |-> val, f |-> f]

\* GlobalsBuilder::new
GlobalsBuilder_new ==
    [heap |-> <<>>, variables |-> [n \in GNames |-> None], struct_fields |-> None,
     panicked |-> FALSE]

\* AllocFrozenValue for FrozenStruct: the struct goes on the frozen heap
alloc_frozen_struct(b, fields) ==
    [b |-> [b EXCEPT !.heap = Append(@, fields)], value |-> Ptr1(Len(b.heap) + 1)]

GlobalsBuilder_set_top(b, name, value) ==
    [b EXCEPT !.variables[name] = Some(value)]

\* GlobalsBuilder::set, for a value that is already allocated
GlobalsBuilder_set(b, name, value) ==
    IF b.struct_fields = None
    THEN [b EXCEPT !.variables[name] = Some(value)]
    ELSE [b EXCEPT !.struct_fields = Some(insert(b.struct_fields[1], name, value).m)]

RECURSIVE GlobalsBuilder_struct_(_, _, _)
RECURSIVE Closure_call(_, _)

\* GlobalsBuilder::struct_
GlobalsBuilder_struct_(b, name, f) ==
    IF b.struct_fields # None THEN [b EXCEPT !.panicked = TRUE]
    ELSE LET b2 == Closure_call(f, [b EXCEPT !.struct_fields = Some(SmallMap_new)]) IN
         IF b2.panicked THEN b2
         ELSE LET fields == b2.struct_fields[1]
                  r == alloc_frozen_struct([b2 EXCEPT !.struct_fields = None], fields)
              IN  GlobalsBuilder_set(r.b, name, r.value)

\* f(self): the closure makes its calls one after the other; a panic ends it
Closure_call(f, b) ==
    IF f = <<>> \/ b.panicked THEN b
    ELSE LET c == Head(f) IN
         Closure_call(Tail(f),
             IF c.op = "set"
             THEN GlobalsBuilder_set(b, c.name, Value_new_int(c.val))
             ELSE GlobalsBuilder_struct_(b, c.name, c.f))

\* GlobalsBuilder::with
GlobalsBuilder_with(b, f) == Closure_call(f, b)

\* GlobalsBuilder::build
GlobalsBuilder_build(b) == [heap |-> b.heap, variables |-> b.variables]

SetCalls == {GOp("set", n, v, <<>>) : n \in {"a", "b"}, v \in 1..2}

\* what a closure handed to struct_ may do: sets, and a struct_ of its own
FieldPrograms ==
    UNION {[1..k -> SetCalls \cup {GOp("struct_", "s", 0, <<>>)}] : k \in 0..MaxProgram}

GInit ==
    /\ builder = GlobalsBuilder_new
    /\ gres = GOp("new", "", 0, <<>>)
    /\ PIdle
    /\ MIdle
    /\ EIdle
    /\ HIdle
    /\ RIdle
    /\ SIdle
    /\ TIdle

GRest == UNCHANGED <<pvars, mvars, evars, hvars, rvars, svars, tvars>>

BuilderSet ==
    \E c \in SetCalls :
        /\ ~builder.panicked
        /\ builder' = GlobalsBuilder_set(builder, c.name, Value_new_int(c.val))
        /\ gres' = c
        /\ GRest

BuilderStruct ==
    \E name \in {"a", "s"}, f \in FieldPrograms :
        /\ ~builder.panicked
        /\ Len(builder.heap) < MaxStructs
        /\ builder' = GlobalsBuilder_struct_(builder, name, f)
        /\ gres' = GOp("struct_", name, 0, f)
        /\ GRest

GNext ==
    \/ BuilderSet
    \/ BuilderStruct

SpecGlobals == GInit /\ [][GNext]_vars

\* the names a closure sets, each once, in the order of its first set
RECURSIVE SetOrder(_, _)
SetOrder(f, seen) ==
    IF f = <<>> THEN <<>>
    ELSE IF Head(f).name \in seen THEN SetOrder(Tail(f), seen)
         ELSE <<Head(f).name>> \o SetOrder(Tail(f), seen \cup {Head(f).name})

\* the value of the closure's last set of that name
LastSet(f, name) ==
    LET i == CHOOSE k \in 1..Len(f) :
                 f[k].name = name /\ \A q \in (k + 1)..Len(f) : f[q].name # name
    IN  Value_new_int(f[i].val)

Nests(f) == \E k \in 1..Len(f) : f[k].op = "struct_"

\* C26 (step part): a struct_ whose closure only sets leaves every other
\* top-level variable as it was, binds the name to one new frozen struct
\* whose fields are the names the closure set, in the order of their first
\* set, each with the value of its last set, and ends in top-level mode; a
\* struct_ whose closure calls struct_ trips the assertion
C26_StructStep ==
    gres'.op = "struct_" /\ ~builder.panicked =>
        LET f == gres'.f IN
        IF Nests(f) THEN builder'.panicked
        ELSE /\ ~builder'.panicked
             /\ builder'.struct_fields = None
             /\ builder'.variables =
                    [builder.variables EXCEPT ![gres'.name] = Some(Ptr1(Len(builder.heap) + 1))]
             /\ Len(builder'.heap) = Len(builder.heap) + 1
             /\ SubSeq(builder'.heap, 1, Len(builder.heap)) = builder.heap
             /\ LET fields == builder'.heap[Len(builder'.heap)] IN
                    /\ keys(fields) = SetOrder(f, {})
                    /\ \A i \in 1..len(fields) : values(fields)[i] = LastSet(f, keys(fields)[i])

\* C26 (state part): between operations the builder is in top-level mode
C26_TopLevel == ~builder.panicked => builder.struct_fields = None

\* C26: GlobalsBuilder.struct_(name, f): every set made by f lands in the
\* struct's own field map and none in the top-level variables; when
\* struct_ returns, name is bound at top level to one frozen struct holding
\* exactly those fields in set order and struct_fields is None; calling
\* struct_ from inside f trips the assertion.
C26_Struct == []C26_TopLevel /\ [][C26_StructStep]_gvars

\* a struct with two fields was bound while a top-level variable that has
\* the name of one of its fields kept its own value
C26_Witness ==
    /\ gres.op = "struct_"
    /\ gres.name = "s"
    /\ ~builder.panicked
    /\ builder.variables["s"] # None
    /\ builder.variables["s"][1].ptr = "Ptr1"
    /\ keys(builder.heap[builder.variables["s"][1].at]) = <<"b", "a">>
    /\ builder.variables["a"] = Some(Value_new_int(1))
    /\ get(builder.heap[builder.variables["s"][1].at], "a") = Some(Value_new_int(2))

\* a closure that called struct_ tripped the assertion
C26_NestedWitness ==
    /\ gres.op = "struct_"
    /\ Nests(gres.f)
    /\ builder.panicked

(***************************************************************************)
(* GlobalsStatic: a OnceCell<Globals> that several threads reach through   *)
(* members and function, each call with a builder closure of its own.      *)
(*   once   the cell: val is the stored Globals or None, owner is the      *)
(*          thread that runs the initialiser, 0 when none does             *)
(*   tpc    per thread: where its call stands, which entry point it went   *)
(*          through, its closure, the number of calls it has made          *)
(*   tret   per thread: what its calls returned, oldest first              *)
(* A Globals carries, as history, the thread and call that built it, so    *)
(* that two tables with equal content built twice are told apart.          *)
(***************************************************************************)
MaxThreads == 2

MaxCalls == 2

Threads == 1..MaxThreads

\* the closures the callers pass: one variable, another value for it, two
\* variables, and one that panics because its struct_ closure nests
Closures ==
    { <<GOp("set", "a", 1, <<>>)>>,
      <<GOp("set", "a", 2, <<>>)>>,
      <<GOp("set", "a", 1, <<>>), GOp("set", "b", 2, <<>>)>>,
      <<GOp("struct_", "s", 0, <<GOp("struct_", "s", 0, <<>>)>>)>> }

NoGlobals == [heap |-> <<>>, variables |-> [n \in GNames |-> None], id |-> <<0, 0>>]

Built(b, id) == [heap |-> b.heap, variables |-> b.variables, id |-> id]

TIdlePc == [at |-> "idle", kind |-> "", x |-> <<>>, n |-> 0]

TRet(kind, out, globals, value) ==
    [kind |-> kind, out |-> out, globals |-> globals, value |-> value]

Defined(g) == {n \in GNames : g.variables[n] # None}

\* the tail of GlobalsStatic::members and GlobalsStatic::function, once
\* globals() has returned the stored table
Returned(kind, g) ==
    IF kind = "members" THEN TRet(kind, "ok", g, Value_new_none)
    ELSE IF Cardinality(Defined(g)) # 1 THEN TRet(kind, "panic", g, Value_new_none)
         ELSE TRet(kind, "ok", g, g.variables[CHOOSE n \in Defined(g) : TRUE][1])

OnceCell_claim_unguarded(cell, t) ==
    [cell |-> [cell EXCEPT !.owner = t], got |-> "init"]

\* OnceCell::get_or_init, entry: the stored value if there is one, else the
\* right to initialise if nobody holds it, else wait
OnceCell_claim(cell, t) ==
    IF cell.val # None THEN [cell |-> cell, got |-> "value"]
    ELSE IF cell.owner = 0 THEN [cell |-> [cell EXCEPT !.owner = t], got |-> "init"]
    ELSE [cell |-> cell, got |-> "wait"]

\* OnceCell::get_or_init, exit of the initialiser: the value is stored, or
\* the closure panicked and the cell stays empty
OnceCell_fill(cell, b, id) ==
    IF b.panicked THEN [cell EXCEPT !.owner = 0]
    ELSE [val |-> Some(Built(b, id)), owner |-> 0]

TInit ==
    /\ once = [val |-> None, owner |-> 0]
    /\ tpc = [t \in Threads |-> TIdlePc]
    /\ tret = [t \in Threads |-> <<>>]
    /\ PIdle
    /\ MIdle
    /\ EIdle
    /\ HIdle
    /\ RIdle
    /\ SIdle
    /\ GIdle

TRest == UNCHANGED <<pvars, mvars, evars, hvars, rvars, svars, gvars>>

\* a thread calls members(x)
CallMembers(t) ==
    \E x \in Closures :
        /\ tpc[t].at = "idle"
        /\ tpc[t].n < MaxCalls
        /\ tpc' = [tpc EXCEPT ![t] = [at |-> "enter", kind |-> "members", x |-> x, n |-> @.n + 1]]
        /\ UNCHANGED <<once, tret>>
        /\ TRest

\* a thread calls function(x)
CallFunction(t) ==
    \E x \in Closures :
        /\ tpc[t].at = "idle"
        /\ tpc[t].n < MaxCalls
        /\ tpc' = [tpc EXCEPT ![t] = [at |-> "enter", kind |-> "function", x |-> x, n |-> @.n + 1]]
        /\ UNCHANGED <<once, tret>>
        /\ TRest

\* get_or_init finds the cell set and the call returns
ReturnStored(t) ==
    /\ tpc[t].at = "enter"
    /\ OnceCell_claim(once, t).got = "value"
    /\ tret' = [tret EXCEPT ![t] = Append(@, Returned(tpc[t].kind, once.val[1]))]
    /\ tpc' = [tpc EXCEPT ![t] = [TIdlePc EXCEPT !.n = tpc[t].n]]
    /\ UNCHANGED once
    /\ TRest

\* get_or_init finds the cell empty and unclaimed: this thread initialises
BeginInit(t) ==
    /\ tpc[t].at = "enter"
    /\ OnceCell_claim(once, t).got = "init"
    /\ once' = OnceCell_claim(once, t).cell
    /\ tpc' = [tpc EXCEPT ![t].at = "init"]
    /\ UNCHANGED tret
    /\ TRest

\* the initialiser runs GlobalsBuilder::new().with(x).build(), the cell is
\* filled, and the call returns what is in the cell; a panic of the
\* closure leaves the cell empty and ends the call
FinishInit(t) ==
    /\ tpc[t].at = "init"
    /\ LET b == GlobalsBuilder_with(GlobalsBuilder_new, tpc[t].x)
           cell == OnceCell_fill(once, b, <<t, tpc[t].n>>)
       IN  /\ once' = cell
           /\ tret' = [tret EXCEPT ![t] = Append(@,
                          IF b.panicked THEN TRet(tpc[t].kind, "panic", NoGlobals, Value_new_none)
                          ELSE Returned(tpc[t].kind, cell.val[1]))]
    /\ tpc' = [tpc EXCEPT ![t] = [TIdlePc EXCEPT !.n = tpc[t].n]]
    /\ TRest

TNext ==
    \E t \in Threads :
        \/ CallMembers(t)
        \/ CallFunction(t)
        \/ ReturnStored(t)
        \/ BeginInit(t)
        \/ FinishInit(t)

SpecStatic == TInit /\ [][TNext]_vars

\* C27 (state part): every call that returned a table returned the one in
\* the cell, function returned that table's only variable, and no two
\* threads initialise at once
C27_OneTable ==
    /\ \A t \in Threads : \A k \in 1..Len(tret[t]) :
           tret[t][k].globals # NoGlobals =>
               /\ once.val = Some(tret[t][k].globals)
               /\ tret[t][k].kind = "function" /\ tret[t][k].out = "ok" =>
                      \E n \in GNames :
                          /\ once.val[1].variables = [NoGlobals.variables EXCEPT ![n] = Some(tret[t][k].value)]
    /\ Cardinality({t \in Threads : tpc[t].at = "init"}) <= 1
    /\ \A t \in Threads : tpc[t].at = "init" => once.owner = t /\ once.val = None

\* C27 (step part): once the cell is set it never changes
C27_SetOnce == once.val # None => once'.val = once.val

\* C27: GlobalsStatic is written once: the Globals of the first
\* initialisation is what every call to members and function returns
\* afterwards, for calls racing on first access and for later calls that
\* pass another closure; the stored table never changes after it is set.
C27_WrittenOnce == []C27_OneTable /\ [][C27_SetOnce]_tvars

\* two threads raced on first access with different closures; the loser,
\* calling function, got the winner's variable and not its own
C27_Witness ==
    \E t, u \in Threads :
        /\ t # u
        /\ once.val # None
        /\ once.val[1].id = <<t, 1>>
        /\ Len(tret[u]) = 1
        /\ tret[u][1].kind = "function"
        /\ tret[u][1].out = "ok"
        /\ tret[u][1].value = Value_new_int(1)
        /\ tret[u][1].globals.id = <<t, 1>>
        /\ Len(tret[t]) = 2
        /\ tret[t][2].globals.id = <<t, 1>>

\* the collector after the arguments ds were passed one by one: a
\* positional through positional(), a named one through named(), and a
\* **splat entry whose key is not a string records ArgsValueIsNotString
\* and ends the splat
RECURSIVE OneByOne(_, _, _)
OneByOne(p, c, ds) ==
    IF ds = <<>> THEN c
    ELSE CASE ds[1].kind = "pos" -> OneByOne(p, positional(p, c, ds[1].val), Tail(ds))
           [] ds[1].kind = "named" ->
                  OneByOne(p, named(p, c, ds[1].name, VStr(ds[1].name), ds[1].val), Tail(ds))
           [] OTHER -> set_err(c, ArgsValueIsNotString)

\* two collectors hold the same, the capacity reserved for the named
\* overflow set aside
SameCollect(a, b) ==
    /\ a.slots = b.slots
    /\ a.only_positional = b.only_positional
    /\ a.next_position = b.next_position
    /\ a.args = b.args
    /\ a.kwargs.entries = b.kwargs.entries
    /\ a.err = b.err
    /\ a.first = b.first

\* C31 (step part): a call that delivers arguments, one by one or through
\* a splat, leaves the collector as if each had been passed on its own, in
\* the order of the splat, up to the first key that is not a string
C31_RouteStep ==
    LET ds == SubSeq(calls', Len(calls) + 1, Len(calls')) IN
    pc = "collect" /\ pc' = "collect" =>
        IF ds # <<>> THEN SameCollect(col', OneByOne(params, col, ds))
        ELSE \/ SameCollect(col', col)
             \/ col' = set_err(col, ArgsArrayIsNotIterable)
             \/ col' = set_err(col, KWArgsIsNotDict)

\* C31 (state part): on every collector the calls reach, a splat of a
\* value that cannot be iterated hands ArgsArrayIsNotIterable to set_err
\* and a double splat of a value that is not a dict hands KWArgsIsNotDict
\* to set_err, and neither binds anything
C31_BadSplat ==
    pc = "collect" =>
        /\ \A v \in {Opaque, VStr("a")} :
               args(params, col, v) = set_err(col, ArgsArrayIsNotIterable)
        /\ \A v \in {Opaque, VStr("a"), VTuple(<<VStr("a")>>)} :
               kwargs(params, col, v) = set_err(col, KWArgsIsNotDict)

\* C31: splat inputs: args(v) routes every element of v, in iteration
\* order, through positional() and records ArgsArrayIsNotIterable when v
\* cannot be iterated; kwargs(v) records KWArgsIsNotDict when v is not a
\* dict, ArgsValueIsNotString at the first key that is not a string, and
\* otherwise routes each pair in dict order through named(); the pairs
\* before such a key are bound when the error is recorded.
C31_Splat == []C31_BadSplat /\ [][C31_RouteStep]_pvars

\* f(**{"a": 1, 0: 2}) on a spec that declares a: a is bound and the
\* collector holds ArgsValueIsNotString
C31_Witness ==
    /\ pc = "collect"
    /\ Len(calls) = 2
    /\ calls[1] = Named1("a", VInt(1))
    /\ calls[2].kind = "badkey"
    /\ Declared(params, "a")
    /\ col.slots[IndexOfName(params, "a")] = VInt(1)
    /\ col.err = Some(ArgsValueIsNotString)

\* f(*(1, 2, 3)) on a spec with one parameter and *args: the first element
\* is in the slot and the other two are in the overflow, in order
C31_ArgsWitness ==
    /\ pc = "collect"
    /\ calls = <<Pos1(VInt(1)), Pos1(VInt(2)), Pos1(VInt(3))>>
    /\ col.next_position = 1
    /\ col.slots[1] = VInt(1)
    /\ col.args = <<VInt(2), VInt(3)>>

(***************************************************************************)
(* Calls on specs that have a position-only parameter.  A position-only    *)
(* parameter is declared under a name that starts with "$", so that no     *)
(* keyword a caller can write is in the index.                             *)
(***************************************************************************)
\* a first parameter named a or $a, then b or not, then **kw or not
DollarSpec(first, kind, hasB, hasKW) ==
    LET p1 == add(ParametersSpec_new, first, kind, Unassigned)
        p2 == IF hasB THEN optional(p1, "b") ELSE p1
    IN  IF hasKW THEN ParametersSpec_kwargs(p2, KWargsName) ELSE p2

DInit ==
    /\ \E first \in {"a", "$a"}, kind \in {"Required", "Optional"}, hasB, hasKW \in BOOLEAN :
          /\ params = DollarSpec(first, kind, hasB, hasKW)
          /\ col = collect(params, 0)
    /\ pc = "collect"
    /\ result = NoResult
    /\ nextVal = 1
    /\ calls = <<>>
    /\ marker = None
    /\ MIdle
    /\ EIdle
    /\ HIdle
    /\ XIdle

DNext ==
    \/ CallPositional
    \/ CallNamed
    \/ CallArgs
    \/ CallKWargs
    \/ Done

SpecParamsNamed == DInit /\ [][DNext]_vars

InIndex(p, name) == get(p.indices, name) # None

InOverflow(c, name) == get(c.kwargs, VStr(name)) # None

\* the step delivers exactly one argument, by name
OneNamed(ds) == Len(ds) = 1 /\ ds[1].kind = "named"

\* C32 (as stated): a named argument whose name is in the index fills the
\* parameter's slot, with RepeatedParameter when the slot was bound; one
\* whose name is not in the index goes to the overflow buffer and the
\* recorded error stays as it was
C32_OriginalStep ==
    LET ds == SubSeq(calls', Len(calls) + 1, Len(calls')) IN
    pc = "collect" /\ pc' = "collect" /\ OneNamed(ds) =>
        IF InIndex(params, ds[1].name)
        THEN LET i == get(params.indices, ds[1].name)[1] + 1 IN
             /\ col'.slots = [col.slots EXCEPT ![i] = ds[1].val]
             /\ col'.kwargs.entries = col.kwargs.entries
             /\ col'.err = IF is_unassigned(col.slots[i]) \/ col.err # None THEN col.err
                           ELSE Some(RepeatedParameter(ds[1].name))
        ELSE /\ col'.slots = col.slots
             /\ get(col'.kwargs, VStr(ds[1].name)) = Some(ds[1].val)
             /\ col'.err = col.err

\* C32 as stated: a named argument that is not in the index records no error
C32_Original == [][C32_OriginalStep]_pvars

\* C32 (amended, step part): as above, except that a name which is not in
\* the index and is already in the overflow buffer has its value replaced
\* there and records RepeatedParameter; a new name is appended
C32_NamedStep ==
    LET ds == SubSeq(calls', Len(calls) + 1, Len(calls')) IN
    pc = "collect" /\ pc' = "collect" /\ OneNamed(ds) =>
        /\ ~col'.only_positional
        /\ col'.next_position = col.next_position
        /\ col'.args = col.args
        /\ IF InIndex(params, ds[1].name)
           THEN LET i == get(params.indices, ds[1].name)[1] + 1 IN
                /\ col'.slots = [col.slots EXCEPT ![i] = ds[1].val]
                /\ col'.kwargs.entries = col.kwargs.entries
                /\ col'.err = IF is_unassigned(col.slots[i]) \/ col.err # None THEN col.err
                              ELSE Some(RepeatedParameter(ds[1].name))
           ELSE /\ col'.slots = col.slots
                /\ get(col'.kwargs, VStr(ds[1].name)) = Some(ds[1].val)
                /\ keys(col'.kwargs) = IF InOverflow(col, ds[1].name) THEN keys(col.kwargs)
                                       ELSE Append(keys(col.kwargs), VStr(ds[1].name))
                /\ col'.err = IF ~InOverflow(col, ds[1].name) \/ col.err # None THEN col.err
                              ELSE Some(RepeatedParameter(ds[1].name))

\* C32 (amended, state part): no call records ExtraNamedParameters; done()
\* on a collector with no recorded error and no missing required parameter
\* returns ExtraNamedParameters with the overflow's names, in order, when
\* the spec has no **kwargs and the overflow is not empty, also when there
\* are surplus positionals; with **kwargs and no surplus positional it
\* returns the overflow as the dict of **kwargs
C32_Done ==
    /\ col.err # None => col.err[1].kind # "ExtraNamedParameters"
    /\ pc = "done" /\ col.err = None /\ result.err # Some(MissingParameter(params.names[1].name)) =>
           IF params.kwargs # None
           THEN IF col.args = <<>>
                THEN result.ok /\ SameValue(result.slots[params.kwargs[1] + 1], VDict(col.kwargs))
                ELSE result = Err(ExtraPositionalParameters(Len(col.args)))
           ELSE IF keys(col.kwargs) # <<>>
                THEN result = Err(ExtraNamedParameters(str_names(keys(col.kwargs))))
                ELSE IF col.args = <<>> THEN result.ok
                     ELSE result = Err(ExtraPositionalParameters(Len(col.args)))

\* C32: named(name, v): a name in the spec's index fills that parameter's
\* slot and records RepeatedParameter if the slot was bound; a name not in
\* the index, the un-prefixed name of a $ parameter included, goes to the
\* named overflow buffer, recording RepeatedParameter only if the buffer
\* already held it; with **kwargs the overflow ends up in its dict, without
\* it ExtraNamedParameters with the unmatched names is raised only by done().
C32_Named == []C32_Done /\ [][C32_NamedStep]_pvars

\* f(1, a = 2) on ($a, **kw): a is not the position-only parameter, the
\* pair is in the dict of kw
C32_Witness ==
    /\ pc = "done"
    /\ params.names[1].name = "$a"
    /\ params.kwargs # None
    /\ calls = <<Pos1(VInt(1)), Named1("a", VInt(2))>>
    /\ result.ok
    /\ result.slots[1] = VInt(1)
    /\ result.slots[params.kwargs[1] + 1].items = <<<<VStr("a"), VInt(2)>>>>

\* f(1, a = 2) on ($a): done() returns ExtraNamedParameters(["a"])
C32_ExtraWitness ==
    /\ pc = "done"
    /\ params.names[1].name = "$a"
    /\ params.kwargs = None
    /\ calls = <<Pos1(VInt(1)), Named1("a", VInt(2))>>
    /\ result = Err(ExtraNamedParameters(<<"a">>))


(***************************************************************************)
(* The promotion rule of insert.                                           *)
(***************************************************************************)
\* this step is one insert
InsertStep == ops' = ops + 1 /\ last'.op = "insert"

\* an insert promotes exactly when the length plus one reaches the threshold,
\* whether or not the key was present; the empty sentinel becomes a vector
C33_InsertStep ==
    InsertStep =>
        /\ Promoted <=> (map.shape = "Vec" /\ Len(map.entries) + 1 >= THRESHOLD)
        /\ map.shape = "Empty" => map'.shape = "Vec" /\ Len(map'.entries) = 1
        /\ map.shape = "Map" => map'.shape = "Map"

\* a vector holds fewer than THRESHOLD entries
C33_VecBelow == map.shape = "Vec" => Len(map.entries) < THRESHOLD

\* C33: an insert of a new or an existing key moves vector storage to the
\* index map iff the length plus one reaches the threshold; a vector-backed
\* map always holds fewer than THRESHOLD entries; the first insert into
\* new() gives a vector
C33_Promotion == []C33_VecBelow /\ [][C33_InsertStep]_mvars

\* a vector of THRESHOLD - 1 entries was promoted by replacing one of its keys
C33_Witness ==
    /\ last.op = "insert"
    /\ last.ret # None
    /\ ops = 1
    /\ crossed
    /\ map.shape = "Map"
    /\ Len(map.entries) = THRESHOLD - 1

\* the first insert into new() gave a vector of one entry
C33_FirstWitness ==
    /\ last.op = "insert"
    /\ ops = 1
    /\ map.shape = "Vec"
    /\ Len(map.entries) = 1
    /\ last.ret = None


(***************************************************************************)
(* The threshold rule of reserve.                                          *)
(***************************************************************************)
\* this step is one reserve
ReserveStep == ops' = ops + 1 /\ last'.op = "reserve"

\* reserve(0) does nothing; reserve keeps len, the entries and their order
C34_Frame ==
    ReserveStep =>
        /\ last'.val = 0 => map' = map
        /\ map'.entries = map.entries
        /\ len(map') = len(map)

\* the claim as stated: one rule on the requested total for the empty and the
\* vector shape, the same at exactly the threshold as with_capacity
C34_OriginalStep ==
    ReserveStep /\ last'.val > 0 /\ map.shape # "Map" =>
        LET total == len(map) + last'.val IN
        /\ total < THRESHOLD => map'.shape = "Vec"
        /\ total > THRESHOLD => map'.shape = "Map"
        /\ total = THRESHOLD => map'.shape = MapHolder_with_capacity(total).shape

\* C34, as stated: reserve follows one threshold rule on len + extra from
\* every starting shape, alike for the empty and the vector shape at the
\* threshold, and never changes len, the entries or their order
C34_Original == [][C34_Frame /\ C34_OriginalStep]_mvars

\* the rule of each starting shape
C34_ShapeStep ==
    ReserveStep /\ last'.val > 0 =>
        LET total == len(map) + last'.val IN
        /\ map.shape = "Empty" =>
              map'.shape = (IF total < THRESHOLD THEN "Vec" ELSE "Map")
        /\ map.shape = "Vec" =>
              map'.shape = (IF total > THRESHOLD THEN "Map" ELSE "Vec")
        /\ map.shape = "Map" => map'.shape = "Map"

\* C34, amended: reserve(0) does nothing and reserve never changes len, the
\* entries or their order; from the empty shape a total below the threshold
\* gives a vector and a total at or above it the index map; from a vector a
\* total above the threshold promotes and a total at or below it keeps the
\* vector; an index map stays one
C34_Reserve == [][C34_Frame /\ C34_ShapeStep]_mvars

\* a vector without entries reserved exactly THRESHOLD and stayed a vector
C34_Witness ==
    /\ last.op = "reserve"
    /\ last.val = THRESHOLD
    /\ map.shape = "Vec"
    /\ map.entries = <<>>
    /\ ~crossed

\* an empty map reserved exactly THRESHOLD and became an index map
C34_EmptyWitness ==
    /\ last.op = "reserve"
    /\ last.val = THRESHOLD
    /\ ops = 1
    /\ map.shape = "Map"
    /\ map.entries = <<>>
    /\ ref = <<>>

\* a vector of entries reserved past the threshold and was promoted in order
C34_PromotedWitness ==
    /\ last.op = "reserve"
    /\ ops = 1
    /\ crossed
    /\ map.shape = "Map"
    /\ Len(map.entries) = 3
    /\ map.entries = ref


(***************************************************************************)
(* Keyed and positional access to one SmallMap.                            *)
(***************************************************************************)
\* the accessors of key k agree with each other and with the history
C35_Key(k) ==
    LET gf == get_full(map, k) IN
    /\ gf # None <=> HasKey(ref, k)
    /\ gf # None <=> get_index_of(map, k) # None
    /\ gf # None <=> get(map, k) # None
    /\ gf # None <=> contains_key(map, k)
    /\ gf # None =>
          LET i == gf[1][1] v == gf[1][3] IN
          /\ gf[1][2] = k
          /\ get_index_of(map, k) = Some(i)
          /\ get_index(map, i) = Some(<<k, v>>)
          /\ get(map, k) = Some(v)

\* position i holds an entry iff i < len, and its key is found at i
C35_Index(i) ==
    /\ get_index(map, i) # None <=> i < len(map)
    /\ get_index(map, i) # None =>
          get_full(map, get_index(map, i)[1][1]) =
              Some(<<i, get_index(map, i)[1][1], get_index(map, i)[1][2]>>)

\* C35: for every key, get_full, get_index_of, get_index, get and
\* contains_key agree on presence, index and value; absent keys give None or
\* false from all of them; the indices of the present keys are 0..len-1
C35_AccessAgree ==
    /\ \A k \in MapKeys \cup {0} : C35_Key(k)
    /\ \A i \in 0..(MaxKey + 1) : C35_Index(i)
    /\ {get_index_of(map, k)[1] : k \in {j \in MapKeys : contains_key(map, j)}}
          = 0..(len(map) - 1)

\* keys inserted in descending order past the threshold: the smallest of the
\* first run is found at that run's last index
C35_Witness ==
    /\ map.shape = "Map"
    /\ crossed
    /\ ops = 2
    /\ last.op = "insert"
    /\ len(map) = THRESHOLD + 1
    /\ get_full(map, 1) = Some(<<THRESHOLD - 2, 1, 1>>)
    /\ get_index(map, THRESHOLD - 2) = Some(<<1, 1>>)
    /\ get_full(map, 0) = None


(***************************************************************************)
(* Ord for SmallMap: Iterator::cmp over the two entry sequences.           *)
(***************************************************************************)
\* Ord for integers
Int_cmp(a, b) == IF a < b THEN "Less" ELSE IF a > b THEN "Greater" ELSE "Equal"

\* Ord for (K, V): the key decides, then the value
Entry_cmp(a, b) == IF Int_cmp(a[1], b[1]) # "Equal" THEN Int_cmp(a[1], b[1])
                   ELSE Int_cmp(a[2], b[2])

\* core::iter::Iterator::cmp: the first unequal pair decides, then the one
\* that ends first is the lesser
RECURSIVE Iterator_cmp(_, _)
Iterator_cmp(a, b) ==
    IF a = <<>> THEN (IF b = <<>> THEN "Equal" ELSE "Less")
    ELSE IF b = <<>> THEN "Greater"
    ELSE IF Entry_cmp(a[1], b[1]) # "Equal" THEN Entry_cmp(a[1], b[1])
    ELSE Iterator_cmp(Tail(a), Tail(b))

\* the entries in ascending key order
RECURSIVE ByKey(_, _)
ByKey(es, k) ==
    IF k > MaxEqKeys THEN <<>>
    ELSE SelectSeq(es, LAMBDA e : e[1] = k) \o ByKey(es, k + 1)

\* mutant: the entries are compared in key order, not in iteration order
cmp_by_key(m, other) == Iterator_cmp(ByKey(iter(m), 1), ByKey(iter(other), 1))

cmp(m, other) == Iterator_cmp(iter(m), iter(other))

\* the first position at which two sequences differ, or one past the shorter
FirstDiff(a, b) ==
    LET n == IF Len(a) < Len(b) THEN Len(a) ELSE Len(b)
        D == {i \in 1..n : a[i] # b[i]} IN
    IF D = {} THEN n + 1 ELSE CHOOSE i \in D : \A j \in D : i <= j

\* C36: cmp is lexicographic over iteration order: the first position at
\* which the entry sequences differ decides, else the shorter is the lesser,
\* so cmp is Equal only for maps with the same entries in the same order
C36_Lexicographic ==
    LET a == iter(lhs) b == iter(rhs) d == FirstDiff(a, b) IN
    /\ d <= Len(a) /\ d <= Len(b) =>
          /\ cmp(lhs, rhs) = Entry_cmp(a[d], b[d])
          /\ cmp(lhs, rhs) # "Equal"
    /\ d > Len(a) \/ d > Len(b) => cmp(lhs, rhs) = Int_cmp(Len(a), Len(b))
    /\ cmp(lhs, rhs) = "Equal" <=> a = b
    /\ cmp(lhs, rhs) = "Equal" => eq(lhs, rhs)
    /\ cmp(lhs, rhs) = "Less" <=> cmp(rhs, lhs) = "Greater"

\* two maps equal under == that do not compare as Equal
C36_Witness ==
    /\ eq(lhs, rhs)
    /\ iter(lhs) = <<<<1, 1>>, <<2, 2>>>>
    /\ iter(rhs) = <<<<2, 2>>, <<1, 1>>>>
    /\ cmp(lhs, rhs) = "Less"
    /\ cmp(rhs, lhs) = "Greater"


(***************************************************************************)
(* Module-level names seen from inside defs.                               *)
(***************************************************************************)
\* a comprehension is open at module level
ModuleCompr == \E k \in 1..Len(nest) : nest[k].kind = "compr" /\ nest[k].depth = 1

\* n is a public name of the module that no open scope binds
PublicName(n) == module[n] # None /\ Binders(SNow, n) = {}

\* n is a private name of the module (it lives in locals[0]) that no
\* function scope binds
PrivateName(n) ==
    /\ locals[1].mp[n] # None
    /\ ~ModuleCompr
    /\ Binders(SNow, n) = {1}

\* no scope gets a parent entry or a slot in this step
NoCopy ==
    /\ Len(locals') = Len(locals)
    /\ \A j \in 1..Len(locals) :
           /\ locals'[j].parent = locals[j].parent
           /\ locals'[j].used = locals[j].used

\* get_name of a public module name: Module(slot), nothing copied
C37_PublicStep ==
    sres'.op = "get_name" /\ PublicName(sres'.args[1]) =>
        /\ NoCopy
        /\ sres'.ret = Some(Module(module[sres'.args[1]][1]))

C37_Public == [][C37_PublicStep]_svars

\* get_name of a module-level name, public or private: nothing is copied
\* and the result is a Module slot
C37_ModuleStep ==
    /\ C37_PublicStep
    /\ sres'.op = "get_name" /\ PrivateName(sres'.args[1]) /\ Len(locals) >= 2 =>
          /\ NoCopy
          /\ sres'.ret # None
          /\ sres'.ret[1].kind = "Module"

\* C37: get_name of a module-level name, public or private, from inside any
\* nesting of defs adds no parent entry to any scope, consumes no local
\* slot and resolves to Module(slot)
C37_NotCopied == [][C37_ModuleStep]_svars

\* a public name resolved from inside two nested defs
C37_PublicWitness ==
    /\ sres.op = "get_name"
    /\ Len(locals) = 3
    /\ module[sres.args[1]] # None
    /\ sres.ret = Some(Module(module[sres.args[1]][1]))
    /\ \A j \in 1..3 : locals[j].parent = <<>>


(***************************************************************************)
(* Repeating get_name in one scope.                                        *)
(***************************************************************************)
\* get_name(x) would return Local(s) and change nothing
Settled(st, x, s) ==
    Scope_get_name(st, x) = [st |-> st, ret |-> Some(Local(s)), ok |-> TRUE]

\* the last operation was a get_name that returned a Local slot
GotLocal == sres.op = "get_name" /\ sres.ret # None /\ sres.ret[1].kind = "Local"

\* the claim as stated, one operation of the same scope in between: after
\* get_name(x) = Local(s), any step that neither enters nor leaves a
\* comprehension nor changes the current scope leaves get_name(x) = Local(s)
\* without further copying
C38_OriginalStep ==
    /\ GotLocal
    /\ sres'.op \notin {"enter_compr", "exit_compr"}
    /\ Len(locals') = Len(locals)
    => Settled(SNow', sres.args[1], sres.ret[1].at)

\* C38, as stated: once get_name(x) has returned Local(s) in the current
\* scope, repeating it with no comprehension entered or left in between
\* returns Local(s) again and copies nothing
C38_Original == [][C38_OriginalStep]_svars

\* a name the current scope binds to s resolves to Local(s) and get_name
\* changes nothing; copy_parent's assertion has never failed
C38_Repeat ==
    /\ sres.ok
    /\ locals # <<>> =>
          \A x \in Names :
              Bound(locals, x) # None => Settled(SNow, x, Bound(locals, x)[1])

\* get_name binds the name it returns in the current scope, and every
\* operation but enter_compr, add_compr and exit_compr keeps the bindings
\* that the scopes it does not push or pop already have
C38_KeepStep ==
    /\ sres'.op = "get_name" /\ sres'.ret # None /\ sres'.ret[1].kind = "Local" =>
          /\ sres'.ok
          /\ Bound(locals', sres'.args[1]) = Some(sres'.ret[1].at)
    /\ sres'.op \notin {"enter_compr", "add_compr", "exit_compr"} =>
          \A j \in 1..Len(locals) : \A x \in Names :
              j <= Len(locals') /\ locals[j].mp[x] # None =>
                  locals'[j].mp[x] = locals[j].mp[x]

\* C38, amended: once get_name(x) has returned Local(s) in the current
\* scope, repeating it in that scope with no enter_compr, add_compr or
\* exit_compr in between returns Local(s) again, adds no parent entry and
\* increases no used count; copy_parent's assertion never fails
C38_Idempotent == []C38_Repeat /\ [][C38_KeepStep]_svars

\* a name captured from the enclosing scope into a def: the repeat finds it
\* in the def's own scope
C38_Witness ==
    /\ GotLocal
    /\ Len(locals) >= 2
    /\ \E i \in 1..Len(locals[Len(locals)].parent) :
           locals[Len(locals)].parent[i][2] = sres.ret[1].at
    /\ Settled(SNow, sres.args[1], sres.ret[1].at)


(***************************************************************************)
(* Well-formedness of the scope stack.                                     *)
(***************************************************************************)
\* scope j: slots below used, one slot per name, parent entries in range
WellFormed(j) ==
    LET sn == locals[j] IN
    /\ \A x \in Names : sn.mp[x] # None => sn.mp[x][1] < sn.used
    /\ \A x, y \in Names : x # y /\ sn.mp[x] # None => sn.mp[x] # sn.mp[y]
    /\ \A i \in 1..Len(sn.parent) :
           /\ sn.parent[i][2] < sn.used
           /\ j > 1
           /\ sn.parent[i][1] < locals[j - 1].used
           /\ \A k \in 1..Len(sn.parent) : k # i => sn.parent[k][2] # sn.parent[i][2]

\* every def and comprehension that was entered has been exited
Balanced == nest = <<>>

\* the three assertions of Scope::exit_module
ExitModuleAsserts ==
    /\ Len(locals) = 1
    /\ unscopes = <<>>
    /\ locals[1].parent = <<>>

C39_Scopes ==
    /\ \A j \in 1..Len(locals) : WellFormed(j)
    /\ locals # <<>> => locals[1].parent = <<>>
    /\ Balanced => ExitModuleAsserts

\* used never decreases in a scope that stays open
C39_UsedStep ==
    \A j \in 1..Len(locals) : j <= Len(locals') => locals'[j].used >= locals[j].used

\* C39: in every scope each slot in mp is below used, distinct names have
\* distinct slots, used never decreases, every parent entry (p, c) has
\* c < used with all c distinct and p below the enclosing scope's used; the
\* first scope never gets a parent entry and, once every def and
\* comprehension is closed, exit_module's assertions hold
C39_WellFormed == []C39_Scopes /\ [][C39_UsedStep]_svars

\* two names captured into a def nested in a def
C39_Witness ==
    /\ Len(locals) = 3
    /\ Len(locals[3].parent) = 2
    /\ Len(locals[2].parent) >= 1
    /\ sres.op = "get_name"

\* a module-level comprehension and a def were entered and exited
C39_BalancedWitness ==
    /\ Balanced
    /\ sres.op = "exit_def"
    /\ locals[1].used = 2
    /\ ExitModuleAsserts


(***************************************************************************)
(* A slot, once assigned, stays assigned.                                  *)
(***************************************************************************)
\* the slots that exist before and after the step
Kept == 1..(IF Len(vrefs) < Len(vrefs') THEN Len(vrefs) ELSE Len(vrefs'))

\* the step is a set that stored its value
Stored == rres'.op = "set" /\ rres'.out = "ok"

\* get never hands out the Unassigned pattern, and is_unassigned is its
\* negation
C40_Reads ==
    \A r \in 1..Len(vrefs) :
        /\ ValueRef_is_unassigned(RNow, r) <=> Reads(RNow, r) = None
        /\ Reads(RNow, r) # None => Reads(RNow, r)[1].ptr # "Unassigned"

C40_Step ==
    /\ rres'.op = "new_unassigned" =>
          /\ Reads(RNow', Len(vrefs')) = None
          /\ ValueRef_is_unassigned(RNow', Len(vrefs'))
    /\ rres'.op = "set" =>
          IF rres'.arg[1].ptr = "Unassigned"
          THEN rres'.out = "panic" /\ RNow' = RNow
          ELSE /\ rres'.out = "ok"
               /\ \A r \in Kept :
                      vrefs[r].origin = vrefs[rres'.at].origin => Reads(RNow', r) = rres'.arg
    /\ \A r \in Kept :
          /\ Reads(RNow, r) # None => Reads(RNow', r) # None
          /\ ~(Stored /\ vrefs[r].origin = vrefs[rres'.at].origin) =>
                 Reads(RNow', r) = Reads(RNow, r)

\* C40: a slot made by new_unassigned reads as unassigned until a set
\* through it or through a reference sharing it; set refuses the Unassigned
\* pattern; after a set the slot reads Some of the last value set and never
\* reads as unassigned again
C40_Monotone == []C40_Reads /\ [][C40_Step]_rvars

\* a slot that was cloned while unassigned and written through its clone
\* refuses the Unassigned pattern and still reads the value
C40_Witness ==
    /\ rres.op = "set"
    /\ rres.out = "panic"
    /\ rres.arg = Some(Untagged(Value_new_unassigned))
    /\ Len(vrefs) >= 2
    /\ vrefs[2].origin = 1
    /\ Reads(RNow, 1) = Some(Untagged(Value_new_int(1)))
    /\ ~ValueRef_is_unassigned(RNow, 2)
    /\ \E r \in 1..Len(vrefs) : ValueRef_is_unassigned(RNow, r)

====
